---- MODULE Spec2Model ----
(***************************************************************************)
(* Real-time view synchronisation of the marketplace front-end.            *)
(*                                                                         *)
(* Spec     : the three views that keep entity collections (public profile *)
(*            page, dashboard page, home page): snapshot fetches, push     *)
(*            event handlers, the dashboard create flow and the home       *)
(*            view-click.  One view is mounted per behaviour.              *)
(* SpecConn : the SignalR connection singleton (startSignalR, joinProfile, *)
(*            leaveProfile) and the views' effect / cleanup sequences.     *)
(*                                                                         *)
(* Push payloads and fetch responses are inputs: they are drawn from small *)
(* sets.  A stored ad is [id, userId, createdAt, viewCount]; the server    *)
(* assigns createdAt in id order, so createdAt = id in every input.        *)
(***************************************************************************)
EXTENDS Integers, Sequences, FiniteSets, TLC

\* ---------------------------------------------------------------- bounds
MaxId == 2          \* pre-existing entity ids are 1..MaxId
MaxView == 1        \* view counts are 0..MaxView
MaxLen == 2         \* handlers that prepend without a check stop at this length
MaxMsg == 1         \* broadcast message ids are 1..MaxMsg
MaxReq == 1         \* view-click requests in flight at a time
MaxConns == 3       \* HubConnection objects built in one behaviour
MaxReconnects == 1  \* automatic reconnects of the transport in one behaviour
MaxRuns == 2        \* runs of the view's SignalR effect (mounts) in one behaviour

profileId == 1      \* the id of the viewed profile (also the logged-in user)

AdIds == 1..MaxId
NewAdId == MaxId + 1            \* the id the server gives the ad POSTed by the dashboard
UserIds == {profileId, profileId + 1}
Texts == {"a", "b"}
Views == {"profile", "dashboard", "home"}
ConnIds == 1..MaxConns
\* The async functions in flight: the view's SignalR effect, the joinProfile and
\* leaveProfile calls of the profile page, and the login page's onSubmit
Tasks == {"effect", "join", "leave", "login"}
ProfileEvents == {"BioItemAdded", "BioItemUpdated", "BioItemDeleted", "CarAdCreated",
                  "CarAdUpdated", "CarAdDeleted", "AdViewUpdated"}
DashEvents == {"CarAdCreatedForUser", "MyCarAdUpdated", "MyCarAdDeleted", "AdViewUpdated"}

\* ---------------------------------------------------------------- helpers
IdsOf(s) == {s[i].id : i \in 1..Len(s)}
Has(s, id) == \E i \in 1..Len(s) : s[i].id = id
Count(s, id) == Cardinality({i \in 1..Len(s) : s[i].id = id})
NoDupIds(s) == \A i, j \in 1..Len(s) : s[i].id = s[j].id => i = j

\* Array.prototype.map
Map(s, F(_)) == [i \in 1..Len(s) |-> F(s[i])]

\* Array.prototype.findIndex, 1-based; 0 when nothing matches (JS: -1)
FindIndex(s, id) ==
    IF Has(s, id) THEN CHOOSE i \in 1..Len(s) :
                          s[i].id = id /\ \A j \in 1..(i - 1) : s[j].id # id
    ELSE 0

\* splice(idx, 1) followed by unshift(item): the element at idx moves to the front
MoveToFront(s, idx) ==
    IF idx > 1
    THEN <<s[idx]>> \o SubSeq(s, 1, idx - 1) \o SubSeq(s, idx + 1, Len(s))
    ELSE s

\* { ...x, ...p }: the payload's fields win, the entry's other fields stay
Merge(x, p) ==
    [f \in (DOMAIN x) \cup (DOMAIN p) |-> IF f \in DOMAIN p THEN p[f] ELSE x[f]]

Perms(s) ==
    LET n == Len(s)
        Bij == {f \in [1..n -> 1..n] : \A i, j \in 1..n : f[i] = f[j] => i = j}
    IN  {[i \in 1..n |-> s[f[i]]] : f \in Bij}

\* (a, b) => a.createdAt > b.createdAt ? -1 : 1   and
\* (a, b) => a.createdAt < b.createdAt ? 1 : -1   (newest first)
AdBefore(a, b) == a.createdAt > b.createdAt

\* advanced entries first, then newest first
BioBefore(a, b) ==
    \/ a.isAdvanced /\ ~b.isAdvanced
    \/ a.isAdvanced = b.isAdvanced /\ a.createdAt > b.createdAt

Before(cmp, a, b) == IF cmp = "bio" THEN BioBefore(a, b) ELSE AdBefore(a, b)

\* The places where x may stand in the sorted list t
Inserts(t, x, cmp) ==
    {SubSeq(t, 1, k) \o <<x>> \o SubSeq(t, k + 1, Len(t)) :
        k \in {k \in 0..Len(t) : /\ \A i \in 1..k : ~Before(cmp, x, t[i])
                                 /\ \A i \in (k + 1)..Len(t) : ~Before(cmp, t[i], x)}}

\* Array.prototype.sort(cmp): the orders of s in which no element that the
\* comparator puts strictly first stands behind another.  The comparators of the
\* pages never return 0, so the order of ties is the engine's choice.
RECURSIVE SortOutcomes(_, _)
SortOutcomes(s, cmp) ==
    IF s = <<>> THEN {<<>>}
    ELSE UNION {Inserts(t, Head(s), cmp) : t \in SortOutcomes(Tail(s), cmp)}

\* ---------------------------------------------------------------- inputs
Ad(i, u, v) == [id |-> i, userId |-> u, createdAt |-> i, viewCount |-> v]
AdPayloads(ids, users) == {Ad(i, u, v) : i \in ids, u \in users, v \in 0..MaxView}

\* What an update event carries: the id, the owner and the changed field (an
\* ad's createdAt never changes, so the whole ad merges to the same entry)
AdUpdates(ids, users) == [id : ids, userId : users, viewCount : 0..MaxView]

Bio(i, u, a) == [id |-> i, userId |-> u, createdAt |-> i, isAdvanced |-> a]
BioPayloads(users) == {Bio(i, u, a) : i \in AdIds, u \in users, a \in BOOLEAN}

TelegramPayloads == {[id |-> i, text |-> t] : i \in 1..MaxMsg, t \in Texts}

\* { adId, viewCount }
ViewPayloads(ids) == [adId : ids, viewCount : 0..MaxView]

\* { adId, userId } and { id, userId }
AdDeletedPayloads(ids) == [adId : ids, userId : UserIds]
BioUpdates(users) == [id : AdIds, userId : users, isAdvanced : BOOLEAN]
BioDeletedPayloads == [id : AdIds, userId : UserIds]

\* The members of a set of numbers, ascending
Asc(S) == CHOOSE s \in [1..Cardinality(S) -> S] :
              \A i, j \in 1..Cardinality(S) : i < j => s[i] < s[j]

\* Fetch responses, listed by ascending id: one record for each id of a subset
\* of ids, Rec(i, a) being the record of id i with the attributes a
ListsById(ids, Attrs, Rec(_, _)) ==
    UNION {{[k \in 1..Cardinality(sub) |-> Rec(Asc(sub)[k], f[Asc(sub)[k]])] :
               f \in [sub -> Attrs]} : sub \in SUBSET ids}

\* GET /api/ads: ads of every user
AdsById == ListsById(AdIds, UserIds \X (0..MaxView), LAMBDA i, a : Ad(i, a[1], a[2]))
AdsAnyOrder == UNION {Perms(l) : l \in AdsById}

\* GET /api/ads of the home page.  The home page neither reads the order of the
\* list nor the owner of an ad when it updates one: one owner's ads, by id.
HomeAdsResponses == ListsById(AdIds, 0..MaxView, LAMBDA i, v : Ad(i, profileId, v))

\* GET /api/bio/user/<profileId>; loadAll sorts the list, its order is immaterial
BioResponses == ListsById(AdIds, BOOLEAN, LAMBDA i, a : Bio(i, profileId, a))

\* GET /api/telegram/today
TelegramResponses ==
    UNION {Perms(l) : l \in ListsById(1..MaxMsg, Texts, LAMBDA i, t : [id |-> i, text |-> t])}

\* GET /api/ads/mine before and after the server has stored the POSTed ad, which
\* is in the list exactly when the server has stored it; loadAds sorts the list
MineBefore == ListsById(AdIds, 0..MaxView, LAMBDA i, v : Ad(i, profileId, v))
MineAfter ==
    {l \in ListsById(AdIds \cup {NewAdId}, 0..MaxView, LAMBDA i, v : Ad(i, profileId, v)) :
        Has(l, NewAdId)}

\* ---------------------------------------------------------------- state
VARIABLES
    view,            \* the mounted view
    feed,            \* profile: the collection this behaviour's traffic is about
    highlightAdId,   \* profile: ?ad=<id> of the URL, 0 when absent; the ad may be gone
    subscribed,      \* the view's SignalR effect has registered its handlers
    fetching,        \* the snapshot GETs in flight
    allAds,          \* profile: the profile's ads
    bio,             \* profile: the profile's biography items
    ads,             \* dashboard: my ads; home: all ads
    telegramMsgs,    \* home: today's broadcast messages
    submit,          \* dashboard: where handleAddOrUpdate (create) stands
    srvCreated,      \* dashboard: the server has stored the POSTed ad (id NewAdId)
    viewReqs,        \* home: POST /api/ads/<id>/view calls in flight, with the clicked ad
    last,            \* the create, delete or view-count handler that ran last ("other"
                     \* after any other step, "mount" before the first)
    \* ---- the connection singleton and the effects (SpecConn)
    mounted,         \* the view is mounted (the profile effect's `alive`)
    unsub,           \* the effect has set its unsub closure
    connection,      \* the module variable `connection`: 0 (null) or a connection
    connState,       \* HubConnection.state of each connection
    handlers,        \* the handlers of the view on each connection: <<event name, run of
                     \* the effect that registered it>>
    groups,          \* server side: the connection is in the profile's group
    pc,              \* where each async function stands
    built,           \* the connection a startSignalR call built and started
    res,             \* the connection a startSignalR call returned
    seen,            \* the closed connection a startSignalR call found, 0 if none
    joinsSent,       \* JoinProfile invocations sent
    reconnects,      \* automatic reconnects the transport has begun
    run,             \* the current run of the view's SignalR effect
    \* ---- the auth store and the credential on the two transports (SpecAuth)
    auth,            \* the store: [token, role, userId, username]
    storage,         \* what persist keeps under "carads_auth"
    authorization,   \* api.defaults.headers.common.Authorization
    connToken,       \* the token each connection's accessTokenFactory returns
    given,           \* the argument of the setAuth call the store's state comes from
    active,          \* AdminPage: the selected tab
    items,           \* the rows of the manager on screen (the dashboard's ads for the ad form)
    open,            \* whether the manager's modal is open
    editing,         \* the row being edited, 0 for none
    chain,           \* where the manager's running submit or delete handler is
    loading,         \* whether a load of the manager's rows is in flight
    writes,          \* the write requests issued, each with the store's role at that time
    submitted,       \* the last submit: which form, and whether it had a defect
    toast,           \* the last error toast shown
    unlisted,        \* the server has stored a write of the manager's running submit
                     \* that no list request sent since then covers
    \* ---- BioManager's list as received and as rendered (SpecBio)
    rawList,         \* the body of the last GET /api/bio/mine
    rows,            \* the rows memo: [key, group, item, mode, sortTime] of each row on screen
    \* ---- home: the rest of handleViewClick and the midnight reset (SpecHome)
    sleeping,        \* the clicked ads whose handleViewClick is in its 700 ms wait
    route,           \* the route router.push was last called with: <<userId, ad>>, <<>> for none
    timer,           \* the timeout of the midnight reset effect
    day,             \* the midnights passed since the page was opened
    expired,         \* the backend has answered a request of this session with 401
    \* ---- admin console: UserManager's search (SpecSearch)
    query,           \* q, the text of the search box
    debounce,        \* debounceRef's timeout: "armed" or "none"
    pending,         \* the GET /api/admin/users requests in flight: [qq, n]
    issued,          \* the number of list requests sent so far
    shownFor         \* the request whose response setItems was last called with

syncVars == <<feed, highlightAdId, subscribed, fetching, allAds, bio, ads,
              telegramMsgs, submit, srvCreated, viewReqs, last>>
connVars == <<mounted, unsub, connection, connState, handlers, groups, pc, built,
              res, seen, joinsSent, reconnects, run>>
authVars == <<auth, storage, authorization, connToken, given>>
adminVars == <<active, items, open, editing, chain, loading, writes, submitted, toast,
               unlisted>>
bioListVars == <<rawList, rows>>
homeVars == <<sleeping, route, timer, day>>
searchVars == <<query, debounce, pending, issued, shownFor>>
pageVars == <<bioListVars, homeVars, expired, searchVars>>
vars == <<view, syncVars, connVars, authVars, adminVars, pageVars>>

collections == <<allAds, bio, ads, telegramMsgs>>
dashFlow == <<submit, srvCreated>>

\* null and undefined, an absent header, the empty token
Null == "null"
Undef == "undefined"
NoHeader == <<>>
NoAuth == [token |-> Null, role |-> Null, userId |-> Null, username |-> Null]
NoGiven == [token |-> Undef, role |-> Undef, userId |-> Undef, username |-> Undef]

\* Nobody logged in, nothing persisted
NoForm == [kind |-> "none", defective |-> FALSE]

AdminIdle ==
    /\ active = "bio"
    /\ items = <<>>
    /\ open = FALSE
    /\ editing = [row |-> 0, lockMode |-> "none"]
    /\ chain = "idle"
    /\ loading = FALSE
    /\ writes = <<>>
    /\ submitted = NoForm
    /\ toast = "none"
    /\ unlisted = FALSE

NoReq == [qq |-> "", n |-> 0]

\* UserManager is not mounted
SearchIdle ==
    /\ query = ""
    /\ debounce = "none"
    /\ pending = {}
    /\ issued = 0
    /\ shownFor = NoReq

\* No list loaded; the home page's mount effect has armed the reset timer
PageIdle ==
    /\ rawList = <<>>
    /\ rows = <<>>
    /\ sleeping = {}
    /\ route = <<>>
    /\ timer = (IF view = "home" THEN "armed" ELSE "none")
    /\ day = 0
    /\ expired = FALSE
    /\ SearchIdle

AuthIdle ==
    /\ auth = NoAuth
    /\ storage = NoAuth
    /\ authorization = NoHeader
    /\ connToken = [c \in ConnIds |-> Null]
    /\ given = NoGiven

\* No connection built, no effect run
ConnIdle ==
    /\ mounted = TRUE
    /\ unsub = FALSE
    /\ connection = 0
    /\ connState = [c \in ConnIds |-> "Unbuilt"]
    /\ handlers = [c \in ConnIds |-> {}]
    /\ groups = [c \in ConnIds |-> FALSE]
    /\ pc = [t \in Tasks |-> "idle"]
    /\ built = [t \in Tasks |-> 0]
    /\ res = [t \in Tasks |-> 0]
    /\ seen = [t \in Tasks |-> 0]
    /\ joinsSent = 0
    /\ reconnects = 0
    /\ run = 1

Init ==
    /\ ConnIdle
    /\ AuthIdle
    /\ AdminIdle
    /\ view \in Views
    /\ feed \in (IF view = "profile" THEN {"ads", "bio"} ELSE {"all"})
    /\ highlightAdId \in (IF view = "profile" THEN 0..NewAdId ELSE {0})
    /\ subscribed = FALSE
    /\ fetching = CASE view = "profile" -> {"all"}
                    [] view = "dashboard" -> {"mine"}
                    [] OTHER -> {"ads", "telegram"}
    /\ allAds = <<>>
    /\ bio = <<>>
    /\ ads = <<>>
    /\ telegramMsgs = <<>>
    /\ submit = "idle"
    /\ srvCreated = FALSE
    /\ viewReqs = {}
    /\ last = "mount"
    /\ PageIdle

\* The view's SignalR effect reaches its conn.on(...) calls
RegisterHandlers ==
    /\ ~subscribed
    /\ subscribed' = TRUE
    /\ last' = "other"
    /\ UNCHANGED <<adminVars, pageVars, authVars, connVars, view, feed, highlightAdId, fetching, collections, dashFlow, viewReqs>>

\* ================================================================ profile
\* The responses of GET /api/bio/user/<id> and GET /api/ads that loadAll awaits
\* together.  The handlers of one list never read the other, so a behaviour
\* carries traffic (responses and events) for one of the two, the other list
\* staying empty.
LoadAllResponses(f) ==
    IF f = "ads" THEN {<<>>} \X AdsAnyOrder ELSE BioResponses \X {<<>>}

\* What loadAll hands to setBio and setAllAds for a response and a highlighted
\* ad h (0: none): the pairs <<bio, allAds>>
LoadAllInstall(bioRes, adsRes, h) ==
    LET onlyThis == SelectSeq(adsRes, LAMBDA x : x.userId = profileId)
    IN  SortOutcomes(bioRes, "bio") \X
           (IF h # 0
            THEN {MoveToFront(onlyThis, FindIndex(onlyThis, h))}
            ELSE SortOutcomes(onlyThis, "ad"))

\* ... over every response of a feed
LoadAllResults ==
    [f \in {"ads", "bio"}, h \in 0..NewAdId |->
        UNION {LoadAllInstall(r[1], r[2], h) : r \in LoadAllResponses(f)}]

LoadAllResolve ==
    /\ view = "profile"
    /\ "all" \in fetching
    /\ \E r \in LoadAllResults[feed, highlightAdId] : bio' = r[1] /\ allAds' = r[2]
    /\ fetching' = fetching \ {"all"}
    /\ last' = "other"
    /\ UNCHANGED <<adminVars, pageVars, authVars, connVars, view, feed, highlightAdId, subscribed, ads, telegramMsgs, dashFlow, viewReqs>>

LoadAllReject ==
    /\ view = "profile"
    /\ "all" \in fetching
    /\ fetching' = fetching \ {"all"}
    /\ last' = "other"
    /\ UNCHANGED <<adminVars, pageVars, authVars, connVars, view, feed, highlightAdId, subscribed, collections, dashFlow, viewReqs>>

\* The handlers of the profile page.  Each is the updater it hands to setBio /
\* setAllAds: from the previous list to the next one (a set of lists where the
\* updater sorts).
onBioAdded(prev, p) ==
    IF p.userId # profileId THEN {prev}
    ELSE SortOutcomes(<<p>> \o prev, "bio")

onBioUpdated(prev, p) ==
    IF p.userId # profileId THEN {prev}
    ELSE SortOutcomes(Map(prev, LAMBDA x : IF x.id = p.id THEN Merge(x, p) ELSE x), "bio")

onBioDeleted(prev, p) ==
    IF p.userId # profileId THEN prev
    ELSE SelectSeq(prev, LAMBDA x : x.id # p.id)

\* onAdCreated without its prev.some(...) check
onAdCreatedNoCheck(prev, p) ==
    IF p.userId # profileId THEN prev
    ELSE <<p>> \o prev

onAdCreated(prev, p) ==
    IF p.userId # profileId THEN prev
    ELSE IF Has(prev, p.id) THEN prev
    ELSE <<p>> \o prev

\* onAdUpdated putting the payload in the entry's place
onAdUpdatedReplace(prev, p) ==
    IF p.userId # profileId THEN prev
    ELSE Map(prev, LAMBDA x : IF x.id = p.id THEN p ELSE x)

onAdUpdated(prev, p) ==
    IF p.userId # profileId THEN prev
    ELSE Map(prev, LAMBDA x : IF x.id = p.id THEN Merge(x, p) ELSE x)

\* onAdDeleted written with findIndex and splice: splice(-1, 1) drops the last
\* entry when no entry has the id
onAdDeletedSplice(prev, p) ==
    IF p.userId # profileId THEN prev
    ELSE IF Has(prev, p.adId)
         THEN SubSeq(prev, 1, FindIndex(prev, p.adId) - 1)
                  \o SubSeq(prev, FindIndex(prev, p.adId) + 1, Len(prev))
         ELSE SubSeq(prev, 1, Len(prev) - 1)

onAdDeleted(prev, p) ==
    IF p.userId # profileId THEN prev
    ELSE SelectSeq(prev, LAMBDA x : x.id # p.adId)

onAdView(prev, p) ==
    Map(prev, LAMBDA x : IF x.id = p.adId THEN [x EXCEPT !.viewCount = p.viewCount] ELSE x)

ProfileFrame == UNCHANGED <<adminVars, pageVars, authVars, connVars, view, feed, highlightAdId, subscribed, fetching, ads,
                            telegramMsgs, dashFlow, viewReqs>>

BioItemAdded ==
    /\ view = "profile" /\ feed = "bio" /\ subscribed /\ Len(bio) < MaxLen
    /\ \E p \in BioPayloads(UserIds) : bio' \in onBioAdded(bio, p)
    /\ last' = "other"
    /\ UNCHANGED allAds /\ ProfileFrame

BioItemUpdated ==
    /\ view = "profile" /\ feed = "bio" /\ subscribed
    /\ \E p \in BioUpdates(UserIds) : bio' \in onBioUpdated(bio, p)
    /\ last' = "other"
    /\ UNCHANGED allAds /\ ProfileFrame

BioItemDeleted ==
    /\ view = "profile" /\ feed = "bio" /\ subscribed
    /\ \E p \in BioDeletedPayloads : bio' = onBioDeleted(bio, p)
    /\ last' = "other"
    /\ UNCHANGED allAds /\ ProfileFrame

CarAdCreated ==
    /\ view = "profile" /\ feed = "ads" /\ subscribed
    /\ \E p \in AdPayloads(AdIds, UserIds) : allAds' = onAdCreated(allAds, p)
    /\ last' = "CarAdCreated"
    /\ UNCHANGED bio /\ ProfileFrame

CarAdUpdated ==
    /\ view = "profile" /\ feed = "ads" /\ subscribed
    /\ \E p \in AdUpdates(AdIds, UserIds) : allAds' = onAdUpdated(allAds, p)
    /\ last' = "CarAdUpdated"
    /\ UNCHANGED bio /\ ProfileFrame

CarAdDeleted ==
    /\ view = "profile" /\ feed = "ads" /\ subscribed
    /\ \E p \in AdDeletedPayloads(AdIds) : allAds' = onAdDeleted(allAds, p)
    /\ last' = "CarAdDeleted"
    /\ UNCHANGED bio /\ ProfileFrame

ProfileAdViewUpdated ==
    /\ view = "profile" /\ feed = "ads" /\ subscribed
    /\ \E p \in ViewPayloads(AdIds) : allAds' = onAdView(allAds, p)
    /\ last' = "AdViewUpdated"
    /\ UNCHANGED bio /\ ProfileFrame

ProfileNext ==
    \/ LoadAllResolve \/ LoadAllReject
    \/ BioItemAdded \/ BioItemUpdated \/ BioItemDeleted
    \/ CarAdCreated \/ CarAdUpdated \/ CarAdDeleted \/ ProfileAdViewUpdated

\* ================================================================ dashboard
\* The ids the server knows for the logged-in user
MineIds == IF srvCreated THEN AdIds \cup {NewAdId} ELSE AdIds

DashFrame == UNCHANGED <<adminVars, pageVars, authVars, connVars, view, feed, highlightAdId, subscribed, fetching, allAds, bio,
                         telegramMsgs, dashFlow, viewReqs>>

\* loadAds, try branch: sort newest first, setAds(list); handleAddOrUpdate, which
\* awaits it, returns
LoadAdsResolve ==
    /\ view = "dashboard"
    /\ "mine" \in fetching
    /\ \E list \in (IF srvCreated THEN MineAfter ELSE MineBefore) :
          ads' \in SortOutcomes(list, "ad")
    /\ fetching' = fetching \ {"mine"}
    /\ submit' = IF submit = "reloading" THEN "done" ELSE submit
    /\ last' = "other"
    /\ UNCHANGED <<adminVars, pageVars, authVars, connVars, view, feed, highlightAdId, subscribed, allAds, bio, telegramMsgs,
                   srvCreated, viewReqs>>

\* loadAds, catch branch: setErr, the list stays
LoadAdsReject ==
    /\ view = "dashboard"
    /\ "mine" \in fetching
    /\ fetching' = fetching \ {"mine"}
    /\ submit' = IF submit = "reloading" THEN "reloadFailed" ELSE submit
    /\ last' = "other"
    /\ UNCHANGED <<adminVars, pageVars, authVars, connVars, view, feed, highlightAdId, subscribed, collections, srvCreated, viewReqs>>

\* handleAddOrUpdate with editingAdId = null, up to api.post; the form is
\* submitted once the first list request has ended
HandleAddSubmit ==
    /\ view = "dashboard"
    /\ submit = "idle"
    /\ fetching = {}
    /\ submit' = "posting"
    /\ last' = "other"
    /\ UNCHANGED <<adminVars, pageVars, authVars, connVars, view, feed, highlightAdId, subscribed, fetching, collections,
                   srvCreated, viewReqs>>

\* The backend stores the ad and pushes CarAdCreatedForUser to the owner
ServerCreateAd ==
    /\ view = "dashboard"
    /\ submit = "posting"
    /\ ~srvCreated
    /\ srvCreated' = TRUE
    /\ last' = "other"
    /\ UNCHANGED <<adminVars, pageVars, authVars, connVars, view, feed, highlightAdId, subscribed, fetching, collections,
                   submit, viewReqs>>

\* api.post resolved: toast, then loadAds() is called and awaited
PostResolve ==
    /\ view = "dashboard"
    /\ submit = "posting"
    /\ srvCreated
    /\ submit' = "reloading"
    /\ fetching' = fetching \cup {"mine"}
    /\ last' = "other"
    /\ UNCHANGED <<adminVars, pageVars, authVars, connVars, view, feed, highlightAdId, subscribed, collections, srvCreated, viewReqs>>

\* api.post rejected: handleAddOrUpdate throws, nothing is reloaded
PostReject ==
    /\ view = "dashboard"
    /\ submit = "posting"
    /\ submit' = "postFailed"
    /\ last' = "other"
    /\ UNCHANGED <<adminVars, pageVars, authVars, connVars, view, feed, highlightAdId, subscribed, fetching, collections,
                   srvCreated, viewReqs>>

\* The updaters the dashboard's handlers hand to setAds
onCarAdCreatedForUser(prev, ad) == <<ad>> \o prev

onMyCarAdUpdated(prev, payload) ==
    Map(prev, LAMBDA x : IF x.id = payload.id THEN Merge(x, payload) ELSE x)

onMyCarAdDeleted(prev, payload) == SelectSeq(prev, LAMBDA x : x.id # payload.adId)

\* The AdViewUpdated handler and the carads_view_updated listener: set the
\* count, then move the ad to the front
onViewUpdated(prev, payload) ==
    LET updated == Map(prev, LAMBDA x : IF x.id = payload.adId
                                        THEN [x EXCEPT !.viewCount = payload.viewCount]
                                        ELSE x)
    IN  MoveToFront(updated, FindIndex(updated, payload.adId))

CarAdCreatedForUser ==
    /\ view = "dashboard" /\ subscribed /\ Len(ads) < MaxLen
    /\ \E ad \in AdPayloads(MineIds, {profileId}) : ads' = onCarAdCreatedForUser(ads, ad)
    /\ last' = "other"
    /\ DashFrame

MyCarAdUpdated ==
    /\ view = "dashboard" /\ subscribed
    /\ \E payload \in AdUpdates(MineIds, {profileId}) : ads' = onMyCarAdUpdated(ads, payload)
    /\ last' = "other"
    /\ DashFrame

\* The ad POSTed by this session is not deleted while the flow runs
MyCarAdDeleted ==
    /\ view = "dashboard" /\ subscribed
    /\ \E payload \in AdDeletedPayloads(AdIds) : ads' = onMyCarAdDeleted(ads, payload)
    /\ last' = "other"
    /\ DashFrame

DashAdViewUpdated ==
    /\ view = "dashboard" /\ subscribed
    /\ \E payload \in ViewPayloads(MineIds) : ads' = onViewUpdated(ads, payload)
    /\ last' = "AdViewUpdated"
    /\ DashFrame

\* The window listener is registered on mount, whatever the connection does
WindowViewUpdated ==
    /\ view = "dashboard"
    /\ \E detail \in ViewPayloads(MineIds) : ads' = onViewUpdated(ads, detail)
    /\ last' = "carads_view_updated"
    /\ DashFrame

DashNext ==
    \/ LoadAdsResolve \/ LoadAdsReject
    \/ HandleAddSubmit \/ ServerCreateAd \/ PostResolve \/ PostReject
    \/ CarAdCreatedForUser \/ MyCarAdUpdated \/ MyCarAdDeleted
    \/ DashAdViewUpdated \/ WindowViewUpdated

\* ================================================================ home
HomeFrame == UNCHANGED <<adminVars, bioListVars, expired, searchVars, authVars, connVars, feed, highlightAdId, allAds, bio, dashFlow>>

\* loadAds of the home page: setAds(list) as received
HomeLoadAdsResolve ==
    /\ view = "home"
    /\ "ads" \in fetching
    /\ \E list \in HomeAdsResponses : ads' = list
    /\ fetching' = fetching \ {"ads"}
    /\ last' = "other"
    /\ UNCHANGED <<view, subscribed, homeVars, telegramMsgs, viewReqs>> /\ HomeFrame

\* loadAds rejected: the mount effect logs the error
HomeLoadAdsReject ==
    /\ view = "home"
    /\ "ads" \in fetching
    /\ fetching' = fetching \ {"ads"}
    /\ last' = "other"
    /\ UNCHANGED <<view, subscribed, homeVars, ads, telegramMsgs, viewReqs>> /\ HomeFrame

\* loadTelegramToday, try branch
LoadTelegramResolve ==
    /\ view = "home"
    /\ "telegram" \in fetching
    /\ \E list \in TelegramResponses : telegramMsgs' = list
    /\ fetching' = fetching \ {"telegram"}
    /\ last' = "other"
    /\ UNCHANGED <<view, subscribed, homeVars, ads, viewReqs>> /\ HomeFrame

\* loadTelegramToday, catch branch
LoadTelegramReject ==
    /\ view = "home"
    /\ "telegram" \in fetching
    /\ fetching' = fetching \ {"telegram"}
    /\ last' = "other"
    /\ UNCHANGED <<view, subscribed, homeVars, ads, telegramMsgs, viewReqs>> /\ HomeFrame

\* The updater onTelegramMsg hands to setTelegramMsgs
onTelegramMsg(prev, msg) ==
    IF Has(prev, msg.id) THEN prev
    ELSE <<msg>> \o prev

TelegramMessageReceived ==
    /\ view = "home" /\ subscribed
    /\ \E msg \in TelegramPayloads : telegramMsgs' = onTelegramMsg(telegramMsgs, msg)
    /\ last' = "other"
    /\ UNCHANGED <<view, subscribed, homeVars, ads, fetching, viewReqs>> /\ HomeFrame

\* handleViewClick up to api.post: the request carries the clicked ad
HandleViewClick ==
    /\ view = "home"
    /\ Cardinality(viewReqs) < MaxReq
    /\ \E i \in 1..Len(ads) :
          viewReqs' = viewReqs \cup {[id |-> ads[i].id, userId |-> ads[i].userId,
                                       viewCount |-> ads[i].viewCount]}
    /\ last' = "other"
    /\ UNCHANGED <<view, subscribed, homeVars, ads, telegramMsgs, fetching>> /\ HomeFrame

\* res.data?.viewCount is absent
NoCount == 0 - 1

\* res.data?.viewCount ?? Number(ad.viewCount) + 1
NewCount(req, data) == IF data = NoCount THEN req.viewCount + 1 ELSE data

\* The updater handleViewClick hands to setAds
onViewResponse(prev, req, data) ==
    Map(prev, LAMBDA x : IF x.id = req.id
                         THEN [x EXCEPT !.viewCount = NewCount(req, data)] ELSE x)

\* clearTimeout(t)
clearTimeout(t) == IF t = "armed" THEN "cleared" ELSE t

\* api.post resolved: setAds (nothing once the page is unmounted), then the
\* handler waits 700 ms
ViewResolve ==
    /\ view \in {"home", "detail"}
    /\ \E req \in viewReqs, data \in (0..MaxView) \cup {NoCount} :
          /\ NewCount(req, data) <= MaxView
          /\ ads' = IF view = "home" THEN onViewResponse(ads, req, data) ELSE ads
          /\ viewReqs' = viewReqs \ {req}
          /\ sleeping' = sleeping \cup {[id |-> req.id, userId |-> req.userId]}
    /\ last' = "ViewResolve"
    /\ UNCHANGED <<view, subscribed, route, timer, day, telegramMsgs, fetching>> /\ HomeFrame

\* api.post rejected: the error is logged, then the handler waits 700 ms
ViewReject ==
    /\ view \in {"home", "detail"}
    /\ \E req \in viewReqs :
          /\ viewReqs' = viewReqs \ {req}
          /\ sleeping' = sleeping \cup {[id |-> req.id, userId |-> req.userId]}
    /\ last' = "other"
    /\ UNCHANGED <<view, subscribed, route, timer, day, ads, telegramMsgs, fetching>> /\ HomeFrame

\* The 700 ms are over: router.push(`/u/${ad.userId}?ad=${ad.id}`).  The home
\* page unmounts: its state is gone, the cleanups of its effects run (the
\* handlers are taken off, the reset timer is cleared); a handleViewClick still
\* running goes on
PushRoute ==
    /\ view \in {"home", "detail"}
    /\ \E ad \in sleeping :
          /\ sleeping' = sleeping \ {ad}
          /\ route' = <<ad.userId, ad.id>>
    /\ view' = "detail"
    /\ subscribed' = FALSE
    /\ fetching' = {}
    /\ ads' = <<>>
    /\ telegramMsgs' = <<>>
    /\ timer' = clearTimeout(timer)
    /\ last' = "other"
    /\ UNCHANGED <<viewReqs, day>> /\ HomeFrame

HomeNext ==
    \/ HomeLoadAdsResolve \/ HomeLoadAdsReject
    \/ LoadTelegramResolve \/ LoadTelegramReject
    \/ TelegramMessageReceived
    \/ HandleViewClick \/ ViewResolve \/ ViewReject \/ PushRoute

Next == RegisterHandlers \/ ProfileNext \/ DashNext \/ HomeNext

Spec == Init /\ [][Next]_vars

\* ---- the home page over several days
\* ---- push events whose payload lacks its id
\* The id a payload without one has when read: zero stands for undefined, which
\* no entity has and which is equal to itself alone
NoId == 0

\* onAdCreated handed an ad without id
MalformedCarAdCreated ==
    /\ view = "profile" /\ feed = "ads" /\ subscribed
    /\ \E u \in UserIds, v \in 0..MaxView : allAds' = onAdCreated(allAds, Ad(NoId, u, v))
    /\ last' = "CarAdCreated"
    /\ UNCHANGED bio /\ ProfileFrame

\* The dashboard's CarAdCreatedForUser handler handed an ad without id
MalformedCarAdCreatedForUser ==
    /\ view = "dashboard" /\ subscribed /\ Len(ads) < MaxLen
    /\ \E v \in 0..MaxView : ads' = onCarAdCreatedForUser(ads, Ad(NoId, profileId, v))
    /\ last' = "other"
    /\ DashFrame

\* onTelegramMsg handed a message without id.  (Handed one without text, it
\* throws at msg.text.substring before any setter runs.)
MalformedTelegramMessage ==
    /\ view = "home" /\ subscribed
    /\ \E t \in Texts : telegramMsgs' = onTelegramMsg(telegramMsgs, [id |-> NoId, text |-> t])
    /\ last' = "other"
    /\ UNCHANGED <<view, subscribed, homeVars, ads, fetching, viewReqs>> /\ HomeFrame

NextMalformed ==
    \/ Next
    \/ MalformedCarAdCreated \/ MalformedCarAdCreatedForUser \/ MalformedTelegramMessage

SpecMalformed == Init /\ [][NextMalformed]_vars

MaxDays == 2        \* midnights in one behaviour

\* The clock passes local midnight.  The reset effect has set one timeout for the
\* first midnight after the mount: if it is still armed its callback runs,
\* setTelegramMsgs([])
Midnight ==
    /\ day < MaxDays
    /\ day' = day + 1
    /\ IF view = "home" /\ timer = "armed"
       THEN telegramMsgs' = <<>> /\ timer' = "fired"
       ELSE UNCHANGED <<telegramMsgs, timer>>
    /\ last' = "other"
    /\ UNCHANGED <<view, subscribed, sleeping, route, ads, fetching, viewReqs>> /\ HomeFrame

InitHome == Init /\ view = "home"

NextHome == RegisterHandlers \/ HomeNext \/ Midnight

SpecHome == InitHome /\ [][NextHome]_vars

\* The timers of the page run when they are due; the backend owes no answer
SpecHomeFair == SpecHome /\ WF_vars(PushRoute)

\* ================================================ the connection singleton
\* startSignalR hands back the module's connection only when it is Connected
ReturnsExistingAlways == connection # 0
ReturnsExisting == connection # 0 /\ connState[connection] = "Connected"

Unbuilt == {c \in ConnIds : connState[c] = "Unbuilt"}
Live == {c \in ConnIds : connState[c] \in {"Connecting", "Connected", "Reconnecting"}}
HomeEvents == {"OnlineCount", "TelegramMessageReceived"}

SyncIdle ==
    /\ feed = "all"
    /\ highlightAdId = 0
    /\ subscribed = FALSE
    /\ fetching = {}
    /\ allAds = <<>> /\ bio = <<>> /\ ads = <<>> /\ telegramMsgs = <<>>
    /\ submit = "idle"
    /\ srvCreated = FALSE
    /\ viewReqs = {}
    /\ last = "mount"

\* The view mounts with no connection yet, with the connection an earlier page
\* left Connected, or (dashboard) while the login page's startSignalR, called
\* right after setAuth, is still connecting
InitConn ==
    /\ SyncIdle
    /\ AuthIdle
    /\ AdminIdle
    /\ view \in Views
    /\ mounted = TRUE
    /\ unsub = FALSE
    /\ handlers = [c \in ConnIds |-> {}]
    /\ groups = [c \in ConnIds |-> FALSE]
    /\ res = [t \in Tasks |-> 0]
    /\ seen = [t \in Tasks |-> 0]
    /\ joinsSent = 0
    /\ reconnects = 0
    /\ run = 1
    /\ \/ /\ connection = 0
          /\ connState = [c \in ConnIds |-> "Unbuilt"]
          /\ pc = [t \in Tasks |-> "idle"]
          /\ built = [t \in Tasks |-> 0]
       \/ /\ connection = 1
          /\ connState = [c \in ConnIds |-> IF c = 1 THEN "Connected" ELSE "Unbuilt"]
          /\ pc = [t \in Tasks |-> "idle"]
          /\ built = [t \in Tasks |-> 0]
       \/ /\ view = "dashboard"
          /\ connection = 1
          /\ connState = [c \in ConnIds |-> IF c = 1 THEN "Connecting" ELSE "Unbuilt"]
          /\ pc = [t \in Tasks |-> IF t = "login" THEN "awaitStart" ELSE "idle"]
          /\ built = [t \in Tasks |-> IF t = "login" THEN 1 ELSE 0]
    /\ PageIdle

\* Only a new mount starts another run of the effect
ConnRest == UNCHANGED <<view, syncVars, run, authVars, adminVars, bioListVars, sleeping, route, day,
                        expired, searchVars>>
ConnFrame == ConnRest /\ UNCHANGED timer

\* conn.on(name, fn) of the current run for each name of evs, and what
\* conn.off(name) with no handler removes: every handler of the name
On(evs) == evs \X {run}
OffAll(hs, evs) == {h \in hs : h[1] \notin evs}

\* The module's connection when a call finds it closed, 0 otherwise
FoundClosed ==
    IF connection # 0 /\ connState[connection] = "Disconnected" THEN connection ELSE 0

\* The synchronous part of startSignalR() called by task t; pcb is pc with the
\* caller's own move already made
startSignalR(t, pcb) ==
    IF ReturnsExisting
    THEN /\ pc' = [pcb EXCEPT ![t] = "started"]
         /\ res' = [res EXCEPT ![t] = connection]
         /\ seen' = [seen EXCEPT ![t] = FoundClosed]
         /\ UNCHANGED <<connection, connState, built>>
    ELSE /\ Unbuilt # {}
         /\ LET c == CHOOSE x \in Unbuilt : \A y \in Unbuilt : x <= y
            IN /\ connection' = c
               /\ connState' = [connState EXCEPT ![c] = "Connecting"]
               /\ built' = [built EXCEPT ![t] = c]
         /\ pc' = [pcb EXCEPT ![t] = "awaitStart"]
         /\ seen' = [seen EXCEPT ![t] = FoundClosed]
         /\ UNCHANGED res

\* connection.start() resolves: the caller goes on and returns the module's
\* `connection`, whichever object that names by now
StartResolve(t) ==
    /\ pc[t] = "awaitStart"
    /\ connState[built[t]] = "Connecting"
    /\ connState' = [connState EXCEPT ![built[t]] = "Connected"]
    /\ pc' = [pc EXCEPT ![t] = "started"]
    /\ res' = [res EXCEPT ![t] = connection]
    /\ UNCHANGED <<mounted, unsub, connection, handlers, groups, built, seen,
                   joinsSent, reconnects>>
    /\ ConnFrame

\* connection.start() rejects: the await throws into the caller
StartReject(t) ==
    /\ pc[t] = "awaitStart"
    /\ connState[built[t]] = "Connecting"
    /\ connState' = [connState EXCEPT ![built[t]] = "Disconnected"]
    /\ pc' = [pc EXCEPT ![t] = "rejected"]
    /\ UNCHANGED <<mounted, unsub, connection, handlers, groups, built, res, seen,
                   joinsSent, reconnects>>
    /\ ConnFrame

\* withAutomaticReconnect: the transport drops, then comes back under a new
\* connection id (the server's group memberships are gone) or gives up
Reconnecting(c) ==
    /\ connState[c] = "Connected"
    /\ reconnects < MaxReconnects
    /\ connState' = [connState EXCEPT ![c] = "Reconnecting"]
    /\ reconnects' = reconnects + 1
    /\ UNCHANGED <<mounted, unsub, connection, handlers, groups, pc, built, res, seen,
                   joinsSent>>
    /\ ConnFrame

\* onreconnected: the callback only logs
Reconnected(c) ==
    /\ connState[c] = "Reconnecting"
    /\ connState' = [connState EXCEPT ![c] = "Connected"]
    /\ groups' = [groups EXCEPT ![c] = FALSE]
    /\ UNCHANGED <<mounted, unsub, connection, handlers, pc, built, res, seen, joinsSent,
                   reconnects>>
    /\ ConnFrame

\* onclose: the callback only logs
Closed(c) ==
    /\ connState[c] = "Reconnecting"
    /\ connState' = [connState EXCEPT ![c] = "Disconnected"]
    /\ groups' = [groups EXCEPT ![c] = FALSE]
    /\ UNCHANGED <<mounted, unsub, connection, handlers, pc, built, res, seen,
                   joinsSent, reconnects>>
    /\ ConnFrame

Settled == {"idle", "done", "resolved", "rejected"}

\* conn.invoke(...) sends only on a Connected connection, and throws otherwise
CanInvoke(c) == c # 0 /\ connState[c] = "Connected"

\* ---- the view's SignalR effect
\* The effect's async body runs up to `await startSignalR()`
EffectRun ==
    /\ mounted
    /\ pc["effect"] = "idle"
    /\ startSignalR("effect", pc)
    /\ UNCHANGED <<mounted, unsub, handlers, groups, joinsSent, reconnects>>
    /\ ConnFrame

\* Profile page: `if (!alive) return; await joinProfile(profileId)`
ProfileAfterStart ==
    /\ view = "profile"
    /\ pc["effect"] = "started"
    /\ IF ~mounted
       THEN /\ pc' = [pc EXCEPT !["effect"] = "done"]
            /\ UNCHANGED <<connection, connState, built, res, seen>>
       ELSE startSignalR("join", [pc EXCEPT !["effect"] = "awaitJoin"])
    /\ UNCHANGED <<mounted, unsub, handlers, groups, joinsSent, reconnects>>
    /\ ConnFrame

\* joinProfile: conn.invoke("JoinProfile", ...) on what startSignalR returned
JoinInvoke ==
    /\ pc["join"] = "started"
    /\ IF CanInvoke(res["join"])
       THEN /\ pc' = [pc EXCEPT !["join"] = "awaitInvoke"]
            /\ joinsSent' = joinsSent + 1
       ELSE /\ pc' = [pc EXCEPT !["join"] = "rejected"]
            /\ UNCHANGED joinsSent
    /\ UNCHANGED <<mounted, unsub, connection, connState, handlers, groups, built, res,
                   seen, reconnects>>
    /\ ConnFrame

JoinResolve ==
    /\ pc["join"] = "awaitInvoke"
    /\ CanInvoke(res["join"])
    /\ groups' = [groups EXCEPT ![res["join"]] = TRUE]
    /\ pc' = [pc EXCEPT !["join"] = "resolved"]
    /\ UNCHANGED <<mounted, unsub, connection, connState, handlers, built, res, seen,
                   joinsSent, reconnects>>
    /\ ConnFrame

JoinReject ==
    /\ pc["join"] = "awaitInvoke"
    /\ pc' = [pc EXCEPT !["join"] = "rejected"]
    /\ UNCHANGED <<mounted, unsub, connection, connState, handlers, groups, built, res,
                   seen, joinsSent, reconnects>>
    /\ ConnFrame

\* Profile page after `await joinProfile`: the seven conn.on calls and unsub,
\* or the empty catch
ProfileAfterJoin ==
    /\ view = "profile"
    /\ pc["effect"] = "awaitJoin"
    /\ pc["join"] \in {"resolved", "rejected"}
    /\ pc' = [pc EXCEPT !["effect"] = "done"]
    /\ IF pc["join"] = "resolved"
       THEN /\ handlers' = [handlers EXCEPT ![res["effect"]] = @ \cup On(ProfileEvents)]
            /\ unsub' = TRUE
       ELSE UNCHANGED <<handlers, unsub>>
    /\ UNCHANGED <<mounted, connection, connState, groups, built, res, seen, joinsSent,
                   reconnects>>
    /\ ConnFrame

\* Dashboard: `const conn = getConnection()`, then off(name) and on(name, ...)
\* for its four events
DashAfterStart ==
    /\ view = "dashboard"
    /\ pc["effect"] = "started"
    /\ pc' = [pc EXCEPT !["effect"] = "done"]
    /\ handlers' = [handlers EXCEPT ![connection] = OffAll(@, DashEvents) \cup On(DashEvents)]
    /\ UNCHANGED <<mounted, unsub, connection, connState, groups, built, res, seen,
                   joinsSent, reconnects>>
    /\ ConnFrame

\* Home: the OnlineCount handler, then `await conn.invoke("GetOnlineCount")`
HomeAfterStart ==
    /\ view = "home"
    /\ pc["effect"] = "started"
    /\ handlers' = [handlers EXCEPT ![res["effect"]] = OffAll(@, {"OnlineCount"}) \cup On({"OnlineCount"})]
    /\ pc' = [pc EXCEPT !["effect"] =
                 IF CanInvoke(res["effect"]) THEN "awaitInvoke" ELSE "done"]
    /\ UNCHANGED <<mounted, unsub, connection, connState, groups, built, res, seen,
                   joinsSent, reconnects>>
    /\ ConnFrame

\* Home after GetOnlineCount: the telegram handler and unsub
HomeCountResolve ==
    /\ view = "home"
    /\ pc["effect"] = "awaitInvoke"
    /\ CanInvoke(res["effect"])
    /\ handlers' = [handlers EXCEPT ![res["effect"]] = OffAll(@, {"TelegramMessageReceived"}) \cup
                                  On({"TelegramMessageReceived"})]
    /\ unsub' = TRUE
    /\ pc' = [pc EXCEPT !["effect"] = "done"]
    /\ UNCHANGED <<mounted, connection, connState, groups, built, res, seen, joinsSent,
                   reconnects>>
    /\ ConnFrame

HomeCountReject ==
    /\ view = "home"
    /\ pc["effect"] = "awaitInvoke"
    /\ pc' = [pc EXCEPT !["effect"] = "done"]
    /\ UNCHANGED <<mounted, unsub, connection, connState, handlers, groups, built, res,
                   seen, joinsSent, reconnects>>
    /\ ConnFrame

\* Login page: `await startSignalR(); router.replace("/dashboard")`
LoginAfterStart ==
    /\ pc["login"] = "started"
    /\ pc' = [pc EXCEPT !["login"] = "done"]
    /\ view' = "dashboard"
    /\ UNCHANGED <<mounted, unsub, connection, connState, handlers, groups, built, res,
                   seen, joinsSent, reconnects>>
    /\ UNCHANGED <<syncVars, run, authVars, adminVars, pageVars>>

\* ---- the effect's cleanup
\* Profile: alive = false; unsub?.(); leaveProfile(profileId).  Home: unsub?.(),
\* and the reset effect's clearTimeout(t).
\* The dashboard effect returns no cleanup.
Unmount ==
    /\ mounted
    /\ pc["effect"] # "idle"
    /\ mounted' = FALSE
    /\ handlers' = IF unsub /\ view = "profile"
                   THEN [handlers EXCEPT ![res["effect"]] = @ \ On(ProfileEvents)]
                   ELSE IF unsub /\ view = "home"
                   THEN [handlers EXCEPT ![res["effect"]] = @ \ On(HomeEvents)]
                   ELSE handlers
    /\ IF view = "profile"
       THEN startSignalR("leave", pc)
       ELSE UNCHANGED <<connection, connState, pc, built, res, seen>>
    /\ UNCHANGED <<unsub, groups, joinsSent, reconnects>>
    /\ timer' = clearTimeout(timer)
    /\ ConnRest

\* leaveProfile: conn.invoke("LeaveProfile", ...); its rejection is swallowed
LeaveInvoke ==
    /\ pc["leave"] = "started"
    /\ pc' = [pc EXCEPT !["leave"] =
                 IF CanInvoke(res["leave"]) THEN "awaitInvoke" ELSE "rejected"]
    /\ UNCHANGED <<mounted, unsub, connection, connState, handlers, groups, built, res,
                   seen, joinsSent, reconnects>>
    /\ ConnFrame

LeaveResolve ==
    /\ pc["leave"] = "awaitInvoke"
    /\ CanInvoke(res["leave"])
    /\ groups' = [groups EXCEPT ![res["leave"]] = FALSE]
    /\ pc' = [pc EXCEPT !["leave"] = "resolved"]
    /\ UNCHANGED <<mounted, unsub, connection, connState, handlers, built, res, seen,
                   joinsSent, reconnects>>
    /\ ConnFrame

LeaveReject ==
    /\ pc["leave"] = "awaitInvoke"
    /\ pc' = [pc EXCEPT !["leave"] = "rejected"]
    /\ UNCHANGED <<mounted, unsub, connection, connState, handlers, groups, built, res,
                   seen, joinsSent, reconnects>>
    /\ ConnFrame

\* The view mounts again (or its effect runs again after a change of its
\* dependencies) once the async functions of the run before have settled: new
\* closures, `alive` true, `unsub` null; the connection singleton and what is
\* registered on it stay
ViewTasks == {"effect", "join", "leave"}
Remount ==
    /\ ~mounted
    /\ run < MaxRuns
    /\ \A t \in ViewTasks : pc[t] \in Settled
    /\ mounted' = TRUE
    /\ unsub' = FALSE
    /\ run' = run + 1
    /\ pc' = [t \in Tasks |-> IF t \in ViewTasks THEN "idle" ELSE pc[t]]
    /\ built' = [t \in Tasks |-> IF t \in ViewTasks THEN 0 ELSE built[t]]
    /\ res' = [t \in Tasks |-> IF t \in ViewTasks THEN 0 ELSE res[t]]
    /\ seen' = [t \in Tasks |-> IF t \in ViewTasks THEN 0 ELSE seen[t]]
    /\ timer' = (IF view = "home" THEN "armed" ELSE timer)
    /\ UNCHANGED <<connection, connState, handlers, groups, joinsSent, reconnects>>
    /\ UNCHANGED <<view, syncVars, authVars, adminVars, bioListVars, sleeping, route, day, expired,
                   searchVars>>

NextConn ==
    \/ EffectRun
    \/ Remount
    \/ \E t \in Tasks : StartResolve(t) \/ StartReject(t)
    \/ \E c \in ConnIds : Reconnecting(c) \/ Reconnected(c) \/ Closed(c)
    \/ ProfileAfterStart \/ JoinInvoke \/ JoinResolve \/ JoinReject \/ ProfileAfterJoin
    \/ DashAfterStart
    \/ HomeAfterStart \/ HomeCountResolve \/ HomeCountReject
    \/ LoginAfterStart
    \/ Unmount \/ LeaveInvoke \/ LeaveResolve \/ LeaveReject

SpecConn == InitConn /\ [][NextConn]_vars

\* ================================================================ auth store
\* Sample credentials, named by their content.  TokenInfo tabulates what the
\* library calls of decodeJwt give for each: the number of segments split(".")
\* finds, whether atob accepts the second one, what JSON.parse makes of it
\* ("throws", "null", "number" or "object") and the claims of an object.
NoClaims == [userId |-> Undef, sub |-> Undef, uriRole |-> Undef, role |-> Undef,
             username |-> Undef]
Tok(n, a, j, c) == [segments |-> n, atob |-> a, json |-> j, claims |-> c]
TokenInfo ==
    [t \in {"", "abc", "h.!.s", "h.notjson.s", "h.null.s", "h.7.s", "h.{}.s",
            "h.{userId:5,role:Admin,username:u}.s", "h.{sub:6,uriRole:SuperAdmin}.s",
            "h.{userId:x,role:User}"} |->
        CASE t = "" -> Tok(1, "throws", "throws", NoClaims)
          [] t = "abc" -> Tok(1, "throws", "throws", NoClaims)
          [] t = "h.!.s" -> Tok(3, "throws", "throws", NoClaims)
          [] t = "h.notjson.s" -> Tok(3, "ok", "throws", NoClaims)
          [] t = "h.null.s" -> Tok(3, "ok", "null", NoClaims)
          [] t = "h.7.s" -> Tok(3, "ok", "number", NoClaims)
          [] t = "h.{}.s" -> Tok(3, "ok", "object", NoClaims)
          [] t = "h.{userId:5,role:Admin,username:u}.s" ->
                Tok(3, "ok", "object",
                    [NoClaims EXCEPT !.userId = "5", !.role = "Admin", !.username = "u"])
          [] t = "h.{sub:6,uriRole:SuperAdmin}.s" ->
                Tok(3, "ok", "object", [NoClaims EXCEPT !.sub = "6", !.uriRole = "SuperAdmin"])
          [] t = "h.{userId:x,role:User}" ->
                Tok(2, "ok", "object", [NoClaims EXCEPT !.userId = "x", !.role = "User"])]
Tokens == DOMAIN TokenInfo
Roles == {"User", "Admin", "SuperAdmin"}

\* a ?? b
Coalesce(a, b) == IF a \in {Null, Undef} THEN b ELSE a

\* if (token): null, undefined and the empty string are falsy
Truthy(t) == t \notin {Null, Undef, ""}

\* Number(v) followed by Number.isFinite(...) ? ... : undefined
FiniteNumber(v) == IF v \in {"5", "6", "9"} THEN v ELSE Undef

\* The statements of decodeJwt's try block throw: split(".")[1] is undefined,
\* atob rejects the segment, JSON.parse rejects the text, or the payload is null
DecodeThrows(t) ==
    \/ TokenInfo[t].segments < 2
    \/ TokenInfo[t].atob = "throws"
    \/ TokenInfo[t].json \in {"throws", "null"}

\* decodeJwt without its catch: the exception leaves the function
decodeJwtNoCatch(t) ==
    LET c == TokenInfo[t].claims
    IN  [threw |-> DecodeThrows(t),
         userId |-> FiniteNumber(Coalesce(c.userId, c.sub)),
         role |-> Coalesce(c.uriRole, c.role),
         username |-> c.username]

\* decodeJwt: the claims of the token, {} when anything in the try block throws
decodeJwt(t) ==
    LET c == TokenInfo[t].claims
    IN  IF DecodeThrows(t)
        THEN [threw |-> FALSE, userId |-> Undef, role |-> Undef, username |-> Undef]
        ELSE [threw |-> FALSE,
              userId |-> FiniteNumber(Coalesce(c.userId, c.sub)),
              role |-> Coalesce(c.uriRole, c.role),
              username |-> c.username]

\* setApiToken: what it leaves in the Authorization header
Bearer(t) == <<"Bearer", t>>
setApiTokenAlways(t) == Bearer(t)
setApiToken(t) == IF Truthy(t) THEN Bearer(t) ELSE NoHeader

\* What setAuth hands to set(...)
AuthOf(p) ==
    LET decoded == decodeJwt(p.token)
    IN  [token |-> p.token,
         userId |-> Coalesce(Coalesce(p.userId, decoded.userId), Null),
         role |-> Coalesce(Coalesce(p.role, decoded.role), Null),
         username |-> Coalesce(Coalesce(p.username, decoded.username), Null)]

\* setAuth as a whole: nothing is stored if decodeJwt lets an exception out;
\* persist writes every state the store takes to storage
setAuth(p) ==
    /\ given' = p
    /\ IF decodeJwt(p.token).threw
       THEN UNCHANGED <<auth, storage, authorization>>
       ELSE /\ authorization' = setApiToken(p.token)
            /\ auth' = AuthOf(p)
            /\ storage' = AuthOf(p)

\* The payloads of setAuth; the login page passes a token and a role only
AuthPayloads ==
    [token : Tokens, role : Roles \cup {Undef}, userId : {"9", Undef},
     username : {"n", Undef}]
LoginPayloads == {p \in AuthPayloads : p.userId = Undef /\ p.username = Undef}

\* accessTokenFactory: () => token ?? "", token read from the store when the
\* connection is built
HandshakeToken(a) == Coalesce(a.token, "")

\* startSignalR() with the credential it gives the connection it builds; a is
\* the store as the call finds it
startSignalRAs(t, a) ==
    /\ startSignalR(t, pc)
    /\ connToken' = IF ReturnsExisting THEN connToken
                    ELSE [connToken EXCEPT ![connection'] = HandshakeToken(a)]

AuthFrame == UNCHANGED <<view, syncVars, mounted, unsub, handlers, groups, joinsSent,
                         reconnects, run, adminVars, pageVars>>

InitAuth ==
    /\ SyncIdle
    /\ ConnIdle
    /\ AuthIdle
    /\ AdminIdle
    /\ view \in {"home", "login"}
    /\ PageIdle

\* The store's setAuth action
SetAuth ==
    /\ \E p \in AuthPayloads : setAuth(p)
    /\ UNCHANGED <<connection, connState, pc, built, res, seen, connToken>>
    /\ AuthFrame

\* LoginPage.onSubmit once the backend has accepted the credentials:
\* setAuth({ token, role }); await startSignalR()
LoginSubmit ==
    /\ view = "login"
    /\ pc["login"] = "idle"
    /\ \E p \in LoginPayloads :
          /\ setAuth(p)
          /\ startSignalRAs("login", AuthOf(p))
    /\ AuthFrame

\* A page's SignalR effect calls startSignalR(), logged in or not
PageStart ==
    /\ view = "home"
    /\ pc["effect"] = "idle"
    /\ startSignalRAs("effect", auth)
    /\ UNCHANGED <<auth, storage, authorization, given>>
    /\ AuthFrame

\* The store's clear action (Header.handleLogout calls it)
Clear ==
    /\ authorization' = setApiToken(Null)
    /\ auth' = NoAuth
    /\ storage' = NoAuth
    /\ given' = NoGiven
    /\ UNCHANGED <<connection, connState, pc, built, res, seen, connToken>>
    /\ AuthFrame

\* The tab loads the application anew (window.location.replace, a reload):
\* module state starts over, persist rehydrates the store from storage and
\* onRehydrateStorage sets the header
Rehydrate ==
    /\ auth' = storage
    /\ authorization' = IF Truthy(storage.token) THEN setApiToken(storage.token)
                        ELSE NoHeader
    /\ connection' = 0
    /\ connState' = [c \in ConnIds |-> "Unbuilt"]
    /\ connToken' = [c \in ConnIds |-> Null]
    /\ pc' = [t \in Tasks |-> "idle"]
    /\ built' = [t \in Tasks |-> 0]
    /\ res' = [t \in Tasks |-> 0]
    /\ seen' = [t \in Tasks |-> 0]
    /\ UNCHANGED <<storage, given>>
    /\ AuthFrame

\* A click on the header's link from the home page to the login page: a
\* client-side navigation, the module's connection stays
GoToLogin ==
    /\ view = "home"
    /\ view' = "login"
    /\ timer' = clearTimeout(timer)
    /\ UNCHANGED <<syncVars, connVars, authVars, adminVars, bioListVars, sleeping, route, day, expired,
                   searchVars>>

\* LoginPage's effect on the token: if (token) router.replace("/dashboard")
TokenEffect ==
    /\ view = "login"
    /\ Truthy(auth.token)
    /\ view' = "dashboard"
    /\ UNCHANGED <<syncVars, connVars, authVars, adminVars, pageVars>>

AuthTasks == {"login", "effect"}

\* The store alone: its actions called with any payload
NextStore == SetAuth \/ Clear \/ Rehydrate

SpecStore == InitAuth /\ [][NextStore]_vars

\* The login page, a page effect and the connection singleton
NextAuth ==
    \/ LoginSubmit
    \/ PageStart
    \/ \E t \in AuthTasks : StartResolve(t) \/ StartReject(t)
    \/ LoginAfterStart
    \/ GoToLogin
    \/ TokenEffect
    \/ Clear
    \/ Rehydrate

SpecAuth == InitAuth /\ [][NextAuth]_vars

\* ================================================================ forms and admin console
\* The write forms (AddAdModal on the dashboard, BioModal and UserModal in the
\* admin console) with the managers that own them. One manager is on screen
\* at a time: the dashboard's ads, or the manager of the admin console's tab.

MaxRows == 1
MaxWrites == 2
RowIds == 1..MaxRows
RowLists == {Asc(sub) : sub \in SUBSET RowIds}
NoEditing == [row |-> 0, lockMode |-> "none"]

\* String.prototype.trim on the sample field values: " " is the one with blanks
Trim(s) == IF s = " " THEN "" ELSE s
clean(v) == Trim(v)

\* ---------------------------------------------------------------- AddAdModal
\* A complete form, and the forms that differ from it in one field; priceText
\* holds what setPriceText lets through: digits with at most one dot
CompleteAd ==
    [kind |-> "ad", title |-> "Pride", year |-> "1400", color |-> "white", mileageKm |-> "1000",
     chassisNumber |-> "N1", contactPhone |-> "09121234567", priceText |-> "120"]
AdEdits ==
    {<<"title", "">>, <<"title", " ">>, <<"year", "">>, <<"color", "">>, <<"mileageKm", "">>,
     <<"chassisNumber", " ">>, <<"contactPhone", "">>, <<"contactPhone", "0912">>,
     <<"priceText", "">>, <<"priceText", ".">>, <<"priceText", "120.">>}
AdForms == {CompleteAd} \cup {[CompleteAd EXCEPT ![e[1]] = e[2]] : e \in AdEdits}

EndsWithDot(t) == t \in {".", "120."}

\* AddAdModal.parsePrice: "" for no price, else the number
parsePrice(form) ==
    LET t == Trim(form.priceText)
    IN  IF t = "" THEN "" ELSE IF EndsWithDot(t) THEN "" ELSE t

validateAdNoPhoneLength(form) ==
    {m \in {"title", "year", "color", "mileageKm", "chassisNumber", "contactPhone",
            "price", "valid price"} :
        \/ m = "title" /\ Trim(form.title) = ""
        \/ m = "year" /\ form.year = ""
        \/ m = "color" /\ Trim(form.color) = ""
        \/ m = "mileageKm" /\ form.mileageKm = ""
        \/ m = "chassisNumber" /\ Trim(form.chassisNumber) = ""
        \/ m = "contactPhone" /\ Trim(form.contactPhone) = ""
        \/ m = "price" /\ Trim(form.priceText) = ""
        \/ m = "valid price" /\ Trim(form.priceText) # "" /\ parsePrice(form) = ""}

\* AddAdModal.validate: the list of what is missing; ok when it is empty
validateAd(form) ==
    {m \in {"title", "year", "color", "mileageKm", "chassisNumber", "contactPhone",
            "price", "valid price", "valid contactPhone"} :
        \/ m = "title" /\ Trim(form.title) = ""
        \/ m = "year" /\ form.year = ""
        \/ m = "color" /\ Trim(form.color) = ""
        \/ m = "mileageKm" /\ form.mileageKm = ""
        \/ m = "chassisNumber" /\ Trim(form.chassisNumber) = ""
        \/ m = "contactPhone" /\ Trim(form.contactPhone) = ""
        \/ m = "price" /\ Trim(form.priceText) = ""
        \/ m = "valid price" /\ Trim(form.priceText) # "" /\ parsePrice(form) = ""
        \/ m = "valid contactPhone" /\ Trim(form.contactPhone) # ""
                                    /\ Len(Trim(form.contactPhone)) < 10}

\* ---------------------------------------------------------------- BioModal
BioForms ==
    [kind : {"bio"}, tab : {"advanced", "simple"}, title : {" ", "t"}, person : {"", "p"},
     contactInfo : {"", "c"}, simpleText : {"", " ", "s"}]

\* BioModal.submit: the early returns with a toast
BioModalRejects(form) ==
    IF form.tab = "advanced"
    THEN Trim(form.title) = "" \/ Trim(form.person) = "" \/ Trim(form.contactInfo) = ""
    ELSE Trim(form.simpleText) = ""

\* BioModal.submit: the payload handed to onSubmit
BioPayload(form) ==
    IF form.tab = "advanced"
    THEN [form EXCEPT !.title = Trim(form.title), !.person = Trim(form.person),
                      !.contactInfo = Trim(form.contactInfo)]
    ELSE [form EXCEPT !.simpleText = Trim(form.simpleText)]

hasAnyAdvanced(p) == clean(p.title) # "" \/ clean(p.person) # "" \/ clean(p.contactInfo) # ""
hasSimple(p) == clean(p.simpleText) # ""

\* BioManager.handleSubmit: the write requests it sends for a payload, in order
\* (a row is edited in the mode it is listed with, so its item exists: PUT)
BioRequests(p, ed) ==
    IF ed.row # 0
    THEN IF ed.lockMode = "advanced"
         THEN IF hasAnyAdvanced(p) THEN <<"PUT">> ELSE <<>>
         ELSE IF hasSimple(p) THEN <<"PUT">> ELSE <<>>
    ELSE (IF hasAnyAdvanced(p) THEN <<"POST">> ELSE <<>>)
            \o (IF hasSimple(p) THEN <<"POST">> ELSE <<>>)

\* ---------------------------------------------------------------- UserModal
CompleteUser ==
    [kind |-> "user", firstName |-> "A", lastName |-> "B", username |-> "u",
     phone |-> "09121234567", email |-> "e@x", password |-> "123456", role |-> "User"]
UserEdits ==
    {<<"firstName", "">>, <<"lastName", " ">>, <<"username", "">>, <<"phone", "">>,
     <<"phone", "0912">>, <<"email", "">>, <<"password", "">>, <<"password", "12345">>,
     <<"role", "Admin">>}
UserForms == {CompleteUser} \cup {[CompleteUser EXCEPT ![e[1]] = e[2]] : e \in UserEdits}

\* UserModal.validate: "ok" or the reason
validateUser(form, mode, can) ==
    CASE ~can -> "denied"
      [] clean(form.firstName) = "" -> "firstName"
      [] clean(form.lastName) = "" -> "lastName"
      [] clean(form.username) = "" -> "username"
      [] clean(form.phone) = "" -> "phone"
      [] Len(clean(form.phone)) < 10 -> "valid phone"
      [] clean(form.email) = "" -> "email"
      [] mode = "create" /\ clean(form.password) = "" -> "password"
      [] mode = "create" /\ Len(clean(form.password)) < 6 -> "valid password"
      [] mode = "edit" /\ clean(form.password) # "" /\ Len(clean(form.password)) < 6
            -> "valid password"
      [] OTHER -> "ok"

\* the role of a listed user, as the edit form sees it: "Admin" or "User"
RowRole(id) == IF id = 1 THEN "User" ELSE "Admin"

\* UserManager.handleSubmit: the write requests it sends, in order
UserRequests(form, ed, can) ==
    IF ~can THEN <<>>
    ELSE IF ed.row = 0 THEN <<"POST">>
    ELSE <<"PUT">> \o (IF RowRole(ed.row) # form.role THEN <<"PUT role">> ELSE <<>>)

\* What the forms are to turn away: a required field that is empty once
\* trimmed, a price that is no number, a phone of an ad shorter than 10
Defective(form, mode) ==
    CASE form.kind = "ad" ->
            \/ \E k \in {"title", "year", "color", "mileageKm", "chassisNumber",
                          "contactPhone", "priceText"} : Trim(form[k]) = ""
            \/ form.priceText \notin {"120"}
            \/ Len(Trim(form.contactPhone)) < 10
      [] form.kind = "bio" ->
            IF form.tab = "advanced"
            THEN \E k \in {"title", "person", "contactInfo"} : Trim(form[k]) = ""
            ELSE Trim(form.simpleText) = ""
      [] form.kind = "user" ->
            \/ \E k \in {"firstName", "lastName", "username", "phone", "email"} :
                    Trim(form[k]) = ""
            \/ mode = "create" /\ Trim(form.password) = ""

\* ---------------------------------------------------------------- AdminPage
isAdmin == auth.role \in {"Admin", "SuperAdmin"}
isSuperAdmin == auth.role = "SuperAdmin"
tabs == (IF isAdmin THEN <<"bio">> ELSE <<>>) \o (IF isSuperAdmin THEN <<"users">> ELSE <<>>)
TabKeys == {tabs[i] : i \in DOMAIN tabs}

\* AdminPage renders its console past the token and role checks
Rendered == Truthy(auth.token) /\ isAdmin

\* the manager on screen
Shown ==
    CASE view = "dashboard" -> IF Truthy(auth.token) THEN "ad" ELSE "none"
      [] view = "admin" /\ Rendered /\ active = "bio" -> "bio"
      [] view = "admin" /\ Rendered /\ active = "users" -> "user"
      [] OTHER -> "none"

canManageUsers == isSuperAdmin

\* whether the handlers of the manager on screen go past their role check
Allowed == Shown = "user" => canManageUsers

InitAdmin ==
    /\ SyncIdle
    /\ ConnIdle
    /\ view \in {"dashboard", "admin"}
    /\ auth \in {NoAuth} \cup {AuthOf(p) : p \in {q \in LoginPayloads : q.token = "abc"}}
    /\ storage = auth
    /\ authorization = setApiToken(auth.token)
    /\ connToken = [c \in ConnIds |-> Null]
    /\ given = NoGiven
    /\ active = "bio"
    /\ items = <<>>
    /\ open = FALSE
    /\ editing = NoEditing
    /\ chain = "idle"
    /\ loading = (Shown # "none")
    /\ writes = <<>>
    /\ submitted = NoForm
    /\ toast = "none"
    /\ unlisted = FALSE
    /\ PageIdle

AdminRest == UNCHANGED <<view, syncVars, connVars, authVars, bioListVars, homeVars, searchVars>>
AdminFrame == AdminRest /\ UNCHANGED <<unlisted, expired>>

\* a click on a tab of the console: the other manager mounts and loads
SelectTab(t) ==
    /\ view = "admin" /\ Rendered
    /\ t \in TabKeys /\ t # active
    /\ chain = "idle" /\ ~loading
    /\ active' = t
    /\ items' = <<>>
    /\ open' = FALSE
    /\ editing' = NoEditing
    /\ loading' = TRUE
    /\ UNCHANGED <<chain, writes, submitted, toast>>
    /\ unlisted' = FALSE
    /\ UNCHANGED expired /\ AdminRest

\* AdminPage's effect: an active tab that is not offered gives way to the first
ActiveTabEffect ==
    /\ view = "admin"
    /\ active \notin TabKeys
    /\ active' = IF tabs # <<>> THEN tabs[1] ELSE "bio"
    /\ active' # active
    /\ UNCHANGED <<items, open, editing, chain, loading, writes, submitted, toast>>
    /\ AdminFrame

\* UserManager: the search box changes and the debounce calls load(q)
Search ==
    /\ Shown = "user"
    /\ ~loading
    /\ loading' = TRUE
    /\ UNCHANGED <<active, items, open, editing, chain, writes, submitted, toast>>
    /\ unlisted' = FALSE
    /\ UNCHANGED expired /\ AdminRest

\* the modal closes once the submit handler that awaited the load returns
AfterLoad ==
    IF chain = "load"
    THEN chain' = "idle" /\ open' = FALSE /\ editing' = NoEditing
    ELSE UNCHANGED <<chain, open, editing>>

\* load / loadAds: the GET resolves
AdminLoadResolve ==
    /\ loading
    /\ \E list \in RowLists : items' = list
    /\ loading' = FALSE
    /\ AfterLoad
    /\ UNCHANGED <<active, writes, submitted, toast>>
    /\ AdminFrame

\* load / loadAds: the catch branch
LoadRejected ==
    /\ loading
    /\ items' = IF Shown \in {"bio", "user"} THEN <<>> ELSE items
    /\ toast' = IF Shown \in {"bio", "user"} THEN "load failed" ELSE toast
    /\ loading' = FALSE
    /\ AfterLoad
    /\ UNCHANGED <<active, writes, submitted, unlisted>>
    /\ AdminRest

\* load / loadAds: the GET rejects
AdminLoadReject == LoadRejected /\ UNCHANGED expired

\* load / loadAds: the backend rejects the GET with 401, the token it was sent
\* with being expired or invalid; the catch branch is the same
LoadUnauthorized ==
    /\ Truthy(auth.token)
    /\ LoadRejected
    /\ expired' = TRUE

\* openCreate
OpenCreate ==
    /\ Shown # "none" /\ ~open
    /\ IF Allowed
       THEN open' = TRUE /\ editing' = NoEditing /\ UNCHANGED toast
       ELSE toast' = "denied" /\ UNCHANGED <<open, editing>>
    /\ UNCHANGED <<active, items, chain, loading, writes, submitted>>
    /\ AdminFrame

\* openEdit / openEditRow on a listed row
OpenEdit ==
    /\ Shown # "none" /\ ~open
    /\ \E i \in DOMAIN items :
       \E m \in (IF Shown = "bio" THEN {"advanced", "simple"} ELSE {"none"}) :
          IF Allowed
          THEN /\ open' = TRUE
               /\ editing' = [row |-> items[i], lockMode |-> m]
               /\ UNCHANGED toast
          ELSE toast' = "denied" /\ UNCHANGED <<open, editing>>
    /\ UNCHANGED <<active, items, chain, loading, writes, submitted>>
    /\ AdminFrame

\* the modal's onOpenChange(false)
Close ==
    /\ Shown # "none" /\ open
    /\ open' = FALSE
    /\ editing' = NoEditing
    /\ UNCHANGED <<active, items, chain, loading, writes, submitted, toast>>
    /\ AdminFrame

\* the modal's mode prop
Mode == IF editing.row # 0 THEN "edit" ELSE "create"

Request(method) == [form |-> Shown, method |-> method, role |-> auth.role]

\* the write requests a submit of the form in the open modal sends, in order
Requests(form) ==
    CASE form.kind = "ad" ->
            IF validateAd(form) # {} THEN <<>>
            ELSE IF editing.row # 0 THEN <<"PUT">> ELSE <<"POST">>
      [] form.kind = "bio" ->
            IF BioModalRejects(form) THEN <<>> ELSE BioRequests(BioPayload(form), editing)
      [] form.kind = "user" ->
            IF validateUser(form, Mode, canManageUsers) # "ok"
            THEN <<>>
            ELSE UserRequests(form, editing, canManageUsers)

\* the forms the open modal can hold
FormsShown ==
    CASE Shown = "ad" -> AdForms
      [] Shown = "bio" -> {f \in BioForms : editing.row # 0 => f.tab = editing.lockMode}
      [] Shown = "user" -> UserForms
      [] OTHER -> {}

\* the modal's submit button: handleSubmit / submit up to the first await
Submit ==
    /\ open /\ chain = "idle"
    /\ \E form \in FormsShown :
          LET reqs == Requests(form)
          IN  /\ submitted' = [kind |-> form.kind, defective |-> Defective(form, Mode)]
              /\ IF reqs = <<>>
                 THEN /\ toast' = "invalid"
                      /\ UNCHANGED <<writes, chain>>
                 ELSE /\ Len(writes) + Len(reqs) <= MaxWrites
                      /\ writes' = Append(writes, Request(reqs[1]))
                      /\ chain' = IF Len(reqs) = 1 THEN "write" ELSE "write+"
                      /\ UNCHANGED toast
    /\ UNCHANGED <<active, items, open, editing, loading>>
    /\ AdminFrame

\* the first request of a submit that sends two resolves, the server has stored
\* it: the second goes out (BioManager: the simple item's POST; UserManager: the
\* role's PUT)
SecondWrite ==
    /\ chain = "write+"
    /\ writes' = Append(writes, [form |-> submitted.kind,
                                 method |-> IF submitted.kind = "user" THEN "PUT role" ELSE "POST",
                                 role |-> auth.role])
    /\ chain' = "write"
    /\ UNCHANGED <<active, items, open, editing, loading, submitted, toast>>
    /\ unlisted' = TRUE
    /\ UNCHANGED expired /\ AdminRest

\* the last request of a submit resolves: BioManager closes the modal and
\* loads; handleAddOrUpdate and UserManager.handleSubmit await the load first
WriteResolve ==
    /\ chain = "write"
    /\ loading' = TRUE
    /\ IF submitted.kind = "bio"
       THEN chain' = "idle" /\ open' = FALSE /\ editing' = NoEditing
       ELSE chain' = "load" /\ UNCHANGED <<open, editing>>
    /\ UNCHANGED <<active, items, writes, submitted, toast>>
    /\ unlisted' = FALSE
    /\ UNCHANGED expired /\ AdminRest

\* a request of a submit rejects: the catch shows a toast
WriteReject ==
    /\ chain \in {"write", "write+"}
    /\ chain' = "idle"
    /\ toast' = "failed"
    /\ UNCHANGED <<active, items, open, editing, loading, writes, submitted>>
    /\ AdminFrame

\* removeRow / removeUser / confirmDelete up to the await of the DELETE
Remove ==
    /\ Shown # "none" /\ chain = "idle"
    /\ items # <<>>
    /\ IF Allowed
       THEN /\ Len(writes) < MaxWrites
            /\ writes' = Append(writes, Request("DELETE"))
            /\ chain' = "delete"
            /\ UNCHANGED toast
       ELSE toast' = "denied" /\ UNCHANGED <<writes, chain>>
    /\ UNCHANGED <<active, items, open, editing, loading, submitted>>
    /\ AdminFrame

\* the DELETE resolves: the manager loads its rows again
DeleteResolve ==
    /\ chain = "delete"
    /\ chain' = "idle"
    /\ loading' = TRUE
    /\ UNCHANGED <<active, items, open, editing, writes, submitted, toast>>
    /\ unlisted' = FALSE
    /\ UNCHANGED expired /\ AdminRest

DeleteReject ==
    /\ chain = "delete"
    /\ chain' = "idle"
    /\ toast' = "failed"
    /\ UNCHANGED <<active, items, open, editing, loading, writes, submitted>>
    /\ AdminFrame

\* Header.handleLogout: the menu is out of reach while a modal covers the page
Logout ==
    /\ Truthy(auth.token)
    /\ ~open
    /\ Clear

NextAdmin ==
    \/ \E t \in {"bio", "users"} : SelectTab(t)
    \/ ActiveTabEffect
    \/ Search
    \/ AdminLoadResolve
    \/ AdminLoadReject
    \/ OpenCreate
    \/ OpenEdit
    \/ Close
    \/ Submit
    \/ SecondWrite
    \/ WriteResolve
    \/ WriteReject
    \/ Remove
    \/ DeleteResolve
    \/ DeleteReject
    \/ Logout

SpecAdmin == InitAdmin /\ [][NextAdmin]_vars

\* ---- UserManager's list requests
MaxLoads == 3       \* list requests sent in one behaviour
Queries == {"", " ", "a"}

\* GET /api/admin/users?q=qq on the server: every user, or the users matching qq
\* (the sample text matches none)
Answer(qq) == IF qq = "" THEN Asc(RowIds) ELSE <<>>

\* UserManager has mounted for a SuperAdmin: the mount effect has called
\* load(""), the [q] effect has set the debounce timeout
InitSearch ==
    /\ SyncIdle
    /\ ConnIdle
    /\ view = "admin"
    /\ auth \in {a \in {AuthOf(p) : p \in LoginPayloads} : a.token = "abc" /\ a.role = "SuperAdmin"}
    /\ storage = auth
    /\ authorization = setApiToken(auth.token)
    /\ connToken = [c \in ConnIds |-> Null]
    /\ given = NoGiven
    /\ active = "users"
    /\ items = <<>>
    /\ open = FALSE
    /\ editing = NoEditing
    /\ chain = "idle"
    /\ loading = TRUE
    /\ writes = <<>>
    /\ submitted = NoForm
    /\ toast = "none"
    /\ unlisted = FALSE
    /\ rawList = <<>> /\ rows = <<>>
    /\ sleeping = {} /\ route = <<>> /\ timer = "none" /\ day = 0
    /\ expired = FALSE
    /\ query = ""
    /\ debounce = "armed"
    /\ pending = {[qq |-> "", n |-> 1]}
    /\ issued = 1
    /\ shownFor = NoReq

SearchFrame ==
    UNCHANGED <<view, syncVars, connVars, authVars, bioListVars, homeVars, expired,
                active, open, editing, chain, writes, submitted, unlisted>>

\* load(queryValue) up to its await: setLoading(true), the GET is sent with the
\* trimmed text
load(queryValue) ==
    /\ issued < MaxLoads
    /\ loading' = TRUE
    /\ pending' = pending \cup {[qq |-> Trim(queryValue), n |-> issued + 1]}
    /\ issued' = issued + 1

\* onChange of the search box: setQ; the [q] effect's cleanup clears the
\* timeout and the effect sets a new one
SetQ ==
    /\ \E text \in Queries \ {query} : query' = text
    /\ debounce' = "armed"
    /\ UNCHANGED <<items, loading, toast, pending, issued, shownFor>>
    /\ SearchFrame

\* The 350 ms timeout fires: load(q)
DebounceFires ==
    /\ debounce = "armed"
    /\ load(query)
    /\ debounce' = "none"
    /\ UNCHANGED <<query, items, toast, shownFor>>
    /\ SearchFrame

\* removeUser / handleSubmit after the write they awaited: load(q)
ReloadAfterWrite ==
    /\ load(query)
    /\ UNCHANGED <<query, debounce, items, toast, shownFor>>
    /\ SearchFrame

\* load, try branch: the GET of one request resolves; finally setLoading(false)
SearchResolve ==
    /\ \E req \in pending :
           /\ items' = Answer(req.qq)
           /\ shownFor' = req
           /\ pending' = pending \ {req}
    /\ loading' = FALSE
    /\ UNCHANGED <<query, debounce, issued, toast>>
    /\ SearchFrame

\* load, catch branch: the GET of one request rejects
SearchReject ==
    /\ \E req \in pending :
           /\ shownFor' = req
           /\ pending' = pending \ {req}
    /\ items' = <<>>
    /\ toast' = "load failed"
    /\ loading' = FALSE
    /\ UNCHANGED <<query, debounce, issued>>
    /\ SearchFrame

NextSearch == SetQ \/ DebounceFires \/ ReloadAfterWrite \/ SearchResolve \/ SearchReject

SpecSearch == InitSearch /\ [][NextSearch]_vars

\* ---- the session while the backend rejects its credential
NextSession == NextAdmin \/ LoadUnauthorized

\* What happens without the user: the backend answers the list requests, and
\* AdminPage's effect runs.  Logging out is the user's choice.
SpecSession ==
    /\ InitAdmin
    /\ [][NextSession]_vars
    /\ WF_vars(AdminLoadResolve \/ AdminLoadReject \/ LoadUnauthorized)
    /\ WF_vars(ActiveTabEffect)

\* ================================================================ BioManager's list
\* The body of GET /api/bio/mine as BioManager.load receives it, normalizeBioItem,
\* and the groups and rows memos computed from the normalized items.
MaxItems == 3       \* records in one response

\* JSON values as JavaScript literals; Null and Undef are null and an absent key
Literals == {"true", "false", "1", "0", "11", "'1'", "'0'", "'true'", "'yes'",
             "'TRUE'", "' yes '", "'no'", "''", Null, Undef}

\* String(v) of a literal
String(v) ==
    CASE v = "'1'" -> "1"
      [] v = "'0'" -> "0"
      [] v = "'true'" -> "true"
      [] v = "'yes'" -> "yes"
      [] v = "'TRUE'" -> "TRUE"
      [] v = "' yes '" -> " yes "
      [] v = "'no'" -> "no"
      [] v = "''" -> ""
      [] OTHER -> v

\* String.prototype.trim and toLowerCase on the strings above
trim(t) == IF t = " yes " THEN "yes" ELSE IF t = " " THEN "" ELSE t
toLowerCase(t) == IF t = "TRUE" THEN "true" ELSE t

toBool(v) ==
    IF v = "true" THEN TRUE
    ELSE IF v = "false" THEN FALSE
    ELSE IF v = "11" \/ v = "'1'" THEN TRUE
    ELSE IF v = "0" \/ v = "'0'" THEN FALSE
    ELSE LET t == toLowerCase(trim(String(Coalesce(v, "''"))))
         IN  t = "true" \/ t = "yes"

\* Numbers and dates of a record are numbers here; 0 stands for an absent key
\* (a ?? b on them), and for the 0 that toNum and dateVal make of it
NoDate == 0
BadDate == 0 - 1    \* a string that new Date() cannot parse
Nz(a, b) == IF a = 0 THEN b ELSE a
toNum(v) == v
dateVal(iso) == IF iso = NoDate \/ iso = BadDate THEN 0 ELSE iso

normalizeBioItem(raw) ==
    [id |-> toNum(Nz(raw.id, raw.Id)),
     groupKey |-> trim(Coalesce(Coalesce(raw.groupKey, raw.GroupKey), "")),
     isAdvanced |-> toBool(Coalesce(Coalesce(raw.isAdvanced, raw.IsAdvanced), raw.ISAdvanced)),
     createdAt |-> Nz(raw.createdAt, raw.CreatedAt),
     updatedAt |-> Nz(raw.updatedAt, raw.UpdatedAt)]

\* `fallback:${it.id}`
FallbackKey(id) ==
    CASE id = 0 -> "fallback:0" [] id = 1 -> "fallback:1" [] id = 2 -> "fallback:2"
      [] id = 3 -> "fallback:3" [] id = 4 -> "fallback:4" [] OTHER -> "fallback:n"

\* the key without the fallback: records without a groupKey share the key ""
groupKeyOfNoFallback(it) == clean(it.groupKey)

\* clean(it.groupKey) || `fallback:${it.id}`
groupKeyOf(it) == IF clean(it.groupKey) # "" THEN clean(it.groupKey) ELSE FallbackKey(it.id)

Max2(a, b) == IF a >= b THEN a ELSE b
stamp(it) == Max2(dateVal(it.createdAt), dateVal(it.updatedAt))

\* Array.prototype.sort((a, b) => b.sortTime - a.sortTime): descending, ties keep
\* their order
RECURSIVE SortBySortTime(_)
SortBySortTime(s) ==
    IF s = <<>> THEN <<>>
    ELSE LET t == SortBySortTime(Tail(s))
             k == Cardinality({i \in 1..Len(t) : t[i].sortTime > Head(s).sortTime})
         IN  SubSeq(t, 1, k) \o <<Head(s)>> \o SubSeq(t, k + 1, Len(t))

\* The loop of the groups memo over the items left, map holding the groups in
\* insertion order; advanced and simple are <<>> for undefined, <<item>> otherwise
RECURSIVE GroupLoop(_, _)
GroupLoop(its, map) ==
    IF its = <<>> THEN map
    ELSE LET it == Head(its)
             key == groupKeyOf(it)
             at == {i \in 1..Len(map) : map[i].key = key}
             g == IF at = {} THEN [key |-> key, advanced |-> <<>>, simple |-> <<>>, sortTime |-> 0]
                  ELSE map[CHOOSE i \in at : TRUE]
             h == [g EXCEPT !.advanced = IF it.isAdvanced THEN <<it>> ELSE @,
                            !.simple = IF it.isAdvanced THEN @ ELSE <<it>>,
                            !.sortTime = Max2(@, stamp(it))]
         IN  GroupLoop(Tail(its),
                       IF at = {} THEN Append(map, h)
                       ELSE [map EXCEPT ![CHOOSE i \in at : TRUE] = h])

bioGroups(its) == SortBySortTime(GroupLoop(its, <<>>))

\* The rows a group pushes
GroupRows(g) ==
    (IF g.advanced # <<>>
     THEN <<[key |-> <<g.key, "adv", g.advanced[1].id>>, group |-> g, item |-> g.advanced[1],
             mode |-> "advanced", sortTime |-> stamp(g.advanced[1])]>>
     ELSE <<>>)
    \o
    (IF g.simple # <<>>
     THEN <<[key |-> <<g.key, "sim", g.simple[1].id>>, group |-> g, item |-> g.simple[1],
             mode |-> "simple", sortTime |-> stamp(g.simple[1])]>>
     ELSE <<>>)

RECURSIVE RowLoop(_)
RowLoop(gs) == IF gs = <<>> THEN <<>> ELSE GroupRows(Head(gs)) \o RowLoop(Tail(gs))

bioRows(gs) == SortBySortTime(RowLoop(gs))

\* ---- responses
\* <<createdAt, updatedAt>> of a record: never updated, updated later, no dates,
\* an unparsable date
Stamps == {<<1, NoDate>>, <<1, 2>>, <<NoDate, NoDate>>, <<BadDate, NoDate>>}

\* a record with camelCase or with PascalCase keys
Raw(casing, i, key, adv, st) ==
    IF casing = "camel"
    THEN [id |-> i, Id |-> 0, groupKey |-> key, GroupKey |-> Undef,
          isAdvanced |-> adv, IsAdvanced |-> Undef, ISAdvanced |-> Undef,
          createdAt |-> st[1], CreatedAt |-> 0, updatedAt |-> st[2], UpdatedAt |-> 0]
    ELSE [id |-> 0, Id |-> i, groupKey |-> Undef, GroupKey |-> key,
          isAdvanced |-> Undef, IsAdvanced |-> adv, ISAdvanced |-> Undef,
          createdAt |-> 0, CreatedAt |-> st[1], updatedAt |-> 0, UpdatedAt |-> st[2]]

\* Up to MaxItems records with the ids 1, 2, ...; a record has no group key (older
\* records) or the key of its group
Attrs == {"", "g"} \X {"true", "false"} \X Stamps
GroupedList(n, f) == [i \in 1..n |-> Raw("camel", i, f[i][1], f[i][2], f[i][3])]

\* One record, its flag in every encoding under each of the three keys read
EncodedLists ==
    {<<[Raw(casing, 1, " ", Undef, <<1, NoDate>>)
           EXCEPT !.isAdvanced = a, !.IsAdvanced = b, !.ISAdvanced = c]>> :
        casing \in {"camel", "Pascal"}, a \in Literals, b \in Literals, c \in {Undef, "true"}}

InitBio ==
    /\ SyncIdle
    /\ ConnIdle
    /\ AuthIdle
    /\ AdminIdle
    /\ view = "admin"
    /\ PageIdle

BioFrame == UNCHANGED <<view, syncVars, connVars, authVars, homeVars, expired, searchVars, active, open,
                        editing, chain, writes, submitted, unlisted>>

\* BioManager's mount effect calls load(): setLoading(true), api.get
BioLoad ==
    /\ view = "admin"
    /\ ~loading
    /\ rawList = <<>> /\ toast = "none"
    /\ loading' = TRUE
    /\ UNCHANGED <<items, toast, bioListVars>>
    /\ BioFrame

\* load, try branch: setItems(rawList.map(normalizeBioItem)); the memos follow
BioInstall(body) ==
    /\ rawList' = body
    /\ items' = Map(body, normalizeBioItem)
    /\ rows' = bioRows(bioGroups(items'))
    /\ loading' = FALSE
    /\ UNCHANGED toast
    /\ BioFrame

BioLoadResolve ==
    /\ view = "admin"
    /\ loading
    /\ \/ \E n \in 0..MaxItems : \E f \in [1..n -> Attrs] : BioInstall(GroupedList(n, f))
       \/ \E body \in EncodedLists : BioInstall(body)

\* load, catch branch: setItems([]), toast.error
BioLoadReject ==
    /\ view = "admin"
    /\ loading
    /\ items' = <<>>
    /\ rows' = bioRows(bioGroups(items'))
    /\ toast' = "load failed"
    /\ loading' = FALSE
    /\ UNCHANGED rawList
    /\ BioFrame

NextBio == BioLoad \/ BioLoadResolve \/ BioLoadReject

SpecBio == InitBio /\ [][NextBio]_vars


\* ================================================================ claims
Others(s, id) == SelectSeq(s, LAMBDA x : x.id # id)
Stored(s, id) == s[FindIndex(s, id)].viewCount

\* C1: an event applied before the first snapshot of its collection is installed
\* is replayed on the snapshot, so every id the collection holds when the fetch
\* ends is still in the collection after it (profile ads and biography,
\* dashboard ads, home broadcast messages).
C1_EarlyEventsSurviveFirstSnapshot ==
    [][/\ ("all" \in fetching /\ "all" \notin fetching')
            => (IdsOf(allAds) \subseteq IdsOf(allAds') /\ IdsOf(bio) \subseteq IdsOf(bio'))
       /\ ("mine" \in fetching /\ "mine" \notin fetching' /\ submit = "idle")
            => IdsOf(ads) \subseteq IdsOf(ads')
       /\ ("telegram" \in fetching /\ "telegram" \notin fetching')
            => IdsOf(telegramMsgs) \subseteq IdsOf(telegramMsgs')]_vars

\* C2: on the profile ads list and the home message feed a create event for an
\* id that is present changes nothing: the lists never hold an id twice, and
\* applying a create and then another one for the same id leaves one entry, the
\* first one.
C2_CreateIsIdempotent ==
    /\ NoDupIds(allAds)
    /\ NoDupIds(telegramMsgs)
    /\ \A p, q \in AdPayloads(AdIds, {profileId}) :
          p.id = q.id =>
             LET once == onAdCreated(allAds, p)
             IN  /\ onAdCreated(once, q) = once
                 /\ Count(once, p.id) = 1
                 /\ ~Has(allAds, p.id) => once[FindIndex(once, p.id)] = p
    /\ \A m, n \in TelegramPayloads :
          m.id = n.id =>
             LET once == onTelegramMsg(telegramMsgs, m)
             IN  /\ onTelegramMsg(once, n) = once
                 /\ Count(once, m.id) = 1
                 /\ ~Has(telegramMsgs, m.id) => once[FindIndex(once, m.id)] = m

\* A create event has been applied to a profile list that holds every id
C2_Witness ==
    /\ last = "CarAdCreated"
    /\ IdsOf(allAds) = AdIds

\* C3: no two entries of the dashboard ads list or of the profile biography
\* list share an id.
C3_NoTwoEntriesShareAnId ==
    (view = "dashboard" => NoDupIds(ads)) /\ NoDupIds(bio)

ViewEvents == {"AdViewUpdated", "carads_view_updated", "ViewResolve"}

NeverLowered(old, new) ==
    \A id \in IdsOf(old) :
        (Count(old, id) = 1 /\ Count(new, id) = 1) => Stored(new, id) >= Stored(old, id)

\* C4: a view-count update (AdViewUpdated, carads_view_updated, the view-click
\* response) never replaces the stored viewCount of an ad by a lower one.
C4_ViewCountNeverLowered ==
    [][last' \in ViewEvents => (NeverLowered(allAds, allAds') /\ NeverLowered(ads, ads'))]_vars

DeleteRemovesOnlyId(prev, next, id) ==
    /\ ~Has(next, id)
    /\ Others(next, id) = Others(prev, id)
    /\ Len(next) = Len(prev) - Count(prev, id)
    /\ ~Has(prev, id) => next = prev

\* C5: a delete event for the viewed profile (CarAdDeleted, BioItemDeleted) or
\* for the dashboard (MyCarAdDeleted) removes the entries with its id and keeps
\* the others as they are and in their order; applied again it changes nothing,
\* also when the id was never there.
C5_DeleteIsIdempotent ==
    /\ \A p \in AdDeletedPayloads(AdIds \cup {NewAdId}) :
          /\ p.userId = profileId =>
                LET next == onAdDeleted(allAds, p)
                IN  DeleteRemovesOnlyId(allAds, next, p.adId) /\ onAdDeleted(next, p) = next
          /\ LET next == onMyCarAdDeleted(ads, p)
             IN  DeleteRemovesOnlyId(ads, next, p.adId) /\ onMyCarAdDeleted(next, p) = next
    /\ \A p \in BioDeletedPayloads :
          p.userId = profileId =>
             LET next == onBioDeleted(bio, p)
             IN  DeleteRemovesOnlyId(bio, next, p.id) /\ onBioDeleted(next, p) = next

\* A delete event has been applied on the profile page and left an ad behind
C5_Witness ==
    /\ last = "CarAdDeleted"
    /\ fetching = {}
    /\ Len(allAds) = 1

\* C6: once the dashboard create flow has reloaded the list, the list holds
\* exactly one entry for the new ad, wherever the push event for it arrived.
C6_ExactlyOneEntryForNewAd ==
    submit = "done" => Count(ads, NewAdId) = 1

\* The topic the profile page joined is still joined as far as the page knows
TopicJoined == view = "profile" /\ mounted /\ pc["join"] = "resolved"

\* C7: whenever the transport finishes a reconnect of the connection on which
\* the profile topic is joined, a JoinProfile invocation is sent for it (the
\* count of JoinProfile invocations grows by exactly one)
C7_RejoinOnReconnect ==
    [][(/\ TopicJoined
        /\ connState[res["join"]] = "Reconnecting"
        /\ connState'[res["join"]] = "Connected")
       => joinsSent' = joinsSent + 1]_vars

\* C8: at every moment at most one connection is connecting, connected or
\* reconnecting: a startSignalR call made during a connect or a reconnect
\* builds no second connection
C8_AtMostOneLiveConnection == Cardinality(Live) <= 1

\* connection.start() of c rejected: its builder was thrown out of startSignalR
StartFailed(c) == \E t \in Tasks : built[t] = c /\ pc[t] = "rejected" /\ res[t] = 0

\* C9: no caller is left awaiting a connection whose start failed, and a
\* startSignalR call that finds the module's connection closed builds and
\* starts a fresh connection and never returns the closed one
C9_FailedStartLeavesManagerUsable ==
    \A t \in Tasks :
        /\ pc[t] = "awaitStart" => connState[built[t]] = "Connecting"
        /\ seen[t] # 0 => (built[t] # 0 /\ built[t] # seen[t] /\ res[t] # seen[t])

\* A call found the connection of a failed start, built a fresh one and got a
\* Connected connection back
C9_Witness ==
    \E t \in Tasks :
        /\ seen[t] # 0 /\ StartFailed(seen[t])
        /\ res[t] = built[t]
        /\ connState[res[t]] = "Connected"

\* C10: once the view is unmounted and none of its async functions is still in
\* flight, no handler of the view is registered on any connection
C10_NoHandlersAfterUnmount ==
    (~mounted /\ \A t \in Tasks : pc[t] \in Settled)
        => \A c \in ConnIds : handlers[c] = {}

HandlersFor(c, ev) == {h \in handlers[c] : h[1] = ev}

\* C11: over mounts, unmounts and runs of the effect, a connection never holds
\* two handlers of the view for one event name
C11_OneHandlerPerEvent ==
    \A c \in ConnIds : \A ev \in ProfileEvents \cup DashEvents \cup HomeEvents :
        Cardinality(HandlersFor(c, ev)) <= 1

\* C12: whenever startSignalR returns a connection while the store holds a
\* credential, the handshake of that connection carries this credential
C12_ReturnedConnectionCarriesToken ==
    [][\A t \in AuthTasks :
          (res'[t] # 0 /\ res'[t] # res[t] /\ Truthy(auth'.token))
             => connToken'[res'[t]] = auth'.token]_vars

\* C13 as stated: the Authorization header is there exactly when the stored
\* token is not null, and is then "Bearer <token>"
C13_HeaderIffTokenNotNull ==
    authorization = IF auth.token # Null THEN Bearer(auth.token) ELSE NoHeader

\* C13, amended: after every step of setAuth, clear and rehydration the header
\* is there exactly when the stored token is a non-empty string, and is then
\* "Bearer <token>"; a store without a token has no role, userId or username,
\* as clear leaves it
C13_HeaderFollowsToken ==
    [][/\ authorization' = (IF Truthy(auth'.token) THEN Bearer(auth'.token) ELSE NoHeader)
       /\ auth'.token = Null => auth' = NoAuth]_vars

\* setAuth has stored the empty token: a token that is not null, and no header
C13_Witness == auth.token = "" /\ authorization = NoHeader /\ storage = auth

AuthFields == {"role", "userId", "username"}

\* C14: the store holds the token of the setAuth call its state comes from,
\* whatever the token; a field the caller supplied holds the caller's value; a
\* field the caller did not supply is null when the token cannot be decoded
C14_SetAuthDegradesGracefully ==
    given # NoGiven =>
        /\ auth.token = given.token
        /\ \A f \in AuthFields :
              /\ given[f] # Undef => auth[f] = given[f]
              /\ (given[f] = Undef /\ DecodeThrows(given.token)) => auth[f] = Null

\* setAuth ran with a token that cannot be decoded, a userId and no role
C14_Witness ==
    /\ given # NoGiven
    /\ DecodeThrows(given.token)
    /\ given.userId # Undef
    /\ given.role = Undef
    /\ auth.token = given.token

\* C15: a fetch of a manager's rows that fails (the step that ends the load
\* with the failure toast) leaves the rows shown before it in place
C15_FailedFetchKeepsCollection ==
    [][(loading /\ ~loading' /\ toast # "load failed" /\ toast' = "load failed")
          => items' = items]_vars

\* C16: a submit of a form with a client-detectable defect sends no request
\* and changes neither the rows nor the modal's open and edit state
C16_DefectiveSubmitChangesNothing ==
    [][(submitted' # submitted /\ submitted'.defective)
          => /\ writes' = writes
             /\ items' = items
             /\ open' = open
             /\ editing' = editing
             /\ chain' = chain
             /\ loading' = loading]_vars

\* a defective form was submitted over a list that has rows: the modal is
\* still open on the row it edits and nothing was sent
C16_Witness ==
    /\ submitted.defective
    /\ toast = "invalid"
    /\ open
    /\ editing.row # 0
    /\ items # <<>>
    /\ writes = <<>>

C18_AcceptedLoginShowsNoError ==
    ~(view = "login" /\ Truthy(auth.token) /\ pc["login"] = "rejected")

\* newest first: no entry stands behind an older one
NewestFirst(s) == \A i, j \in 1..Len(s) : i < j => ~AdBefore(s[j], s[i])

\* C19: with no highlight requested, the profile's and the dashboard's ads are
\* newest first in every state
C19_AdsNewestFirst ==
    /\ (view = "profile" /\ highlightAdId = 0) => NewestFirst(allAds)
    /\ view = "dashboard" => NewestFirst(ads)

\* C20: a load with a highlight that installs a list installs the newest-first
\* list of the profile's ads with the highlighted ad, if it is there, in front
C20_HighlightMovesOneAdToFront ==
    [][(view = "profile" /\ highlightAdId # 0 /\ "all" \in fetching
          /\ "all" \notin fetching' /\ allAds' # allAds)
          => /\ NewestFirst(Others(allAds', highlightAdId))
             /\ Has(allAds', highlightAdId) => allAds'[1].id = highlightAdId]_vars

\* The entries of the list that stand in the group of key k, and their variants
Members(k) == {i \in 1..Len(items) : groupKeyOf(items[i]) = k}
RowsOf(k, mode) == {r \in 1..Len(rows) : rows[r].group.key = k /\ rows[r].mode = mode}
ModeOf(it) == IF it.isAdvanced THEN "advanced" ELSE "simple"

\* C21: for every loaded list, the entries sharing a groupKey form one group that
\* yields at most one advanced and at most one simple row, a row of a variant
\* exactly when an entry of that variant is in the group; the group's sort key is
\* the maximum of the createdAt / updatedAt timestamps of its entries; an entry
\* without a groupKey stands alone in its group.
C21_GroupsMergeByKey ==
    /\ \A r \in 1..Len(rows) :
          /\ \E i \in Members(rows[r].group.key) :
                rows[r].item = items[i] /\ rows[r].mode = ModeOf(items[i])
          /\ \A i \in Members(rows[r].group.key) : rows[r].group.sortTime >= stamp(items[i])
          /\ \E i \in Members(rows[r].group.key) : rows[r].group.sortTime = stamp(items[i])
    /\ \A i \in 1..Len(items) :
          /\ Cardinality(RowsOf(groupKeyOf(items[i]), ModeOf(items[i]))) = 1
          /\ \A mode \in {"advanced", "simple"} :
                (\A j \in Members(groupKeyOf(items[i])) : ModeOf(items[j]) # mode)
                    => RowsOf(groupKeyOf(items[i]), mode) = {}
          /\ items[i].groupKey = "" => Members(groupKeyOf(items[i])) = {i}

\* a list of three entries: two variants of one group, the simple one the newer,
\* and an entry without a key; three rows
C21_Witness ==
    /\ Len(items) = 3 /\ Len(rows) = 3
    /\ \E i, j, n \in 1..3 :
          /\ items[i].groupKey = "g" /\ items[j].groupKey = "g" /\ items[n].groupKey = ""
          /\ items[i].isAdvanced /\ ~items[j].isAdvanced
          /\ stamp(items[j]) > stamp(items[i])
          /\ \E r \in 1..3 : rows[r].item = items[i] /\ rows[r].group.sortTime = stamp(items[j])

\* the encodings of the flag the claim lists, as literals
TruthyEncodings == {"true", "1", "'1'", "'true'", "'yes'"}
FalsyEncodings == {"false", "0", "'0'", Null, Undef}

\* the flag of a record that carries it under one key only (camelCase or PascalCase);
\* "other" for a record that carries it under several keys
FlagOf(raw) ==
    IF raw.IsAdvanced = Undef /\ raw.ISAdvanced = Undef THEN raw.isAdvanced
    ELSE IF raw.isAdvanced = Undef /\ raw.ISAdvanced = Undef THEN raw.IsAdvanced
    ELSE "other"

\* C30: normalizeBioItem makes a record advanced when its isAdvanced / IsAdvanced
\* value is one of true, 1, "1", "true", "yes" and not advanced when it is one of
\* false, 0, "0", null or absent, under camelCase and under PascalCase keys alike.
C30_TruthyEncodingsAreAdvanced ==
    \A i \in 1..Len(rawList) :
        /\ FlagOf(rawList[i]) \in TruthyEncodings => items[i].isAdvanced
        /\ FlagOf(rawList[i]) \in FalsyEncodings => ~items[i].isAdvanced

\* C22: while the home page is mounted the broadcast messages are emptied at every
\* local midnight; the reset timer is armed only while the page is mounted (once
\* per mount, cleared on unmount) and never fires after teardown.
C22_MessagesResetEveryMidnight ==
    [][/\ (day' # day /\ view = "home") => telegramMsgs' = <<>>
       /\ view' # "home" => timer' # "armed"
       /\ (timer' = "fired" /\ timer # "fired") => view = "home"]_vars

\* C26: no view-increment request is in flight while the collection still shows
\* the clicked ad with the count it had when it was clicked.
C26_CountBumpedBeforeRequest ==
    \A req \in viewReqs : \A i \in 1..Len(ads) :
        (view = "home" /\ ads[i].id = req.id) => ads[i].viewCount > req.viewCount

\* C27: after a view click the page navigates to the ad's detail view, whether the
\* increment call has succeeded, failed or not completed.
C27_ClickLeadsToDetail ==
    \A a \in AdIds : (\E req \in viewReqs : req.id = a) ~> (route # <<>>)

\* C23: a submit that sends two requests and fails part-way does not leave the
\* list out of step with the server: once the handler has returned and no list
\* request is in flight, every write the server stored is covered by a list
\* request sent after it.
C23_PartialWriteIsReloaded ==
    (chain = "idle" /\ ~loading) => ~unlisted

\* C24: whenever the backend has rejected a request because the credential is
\* expired or invalid, the session is eventually cleared: token, role, userId and
\* username null and no Authorization header.
C24_RejectedSessionIsCleared ==
    expired ~> (auth = NoAuth /\ authorization = NoHeader)

\* next is prev with the payload p merged into the entries with p's id: those
\* entries take p's fields and keep their others, every other entry is as it
\* was.  ordered: entry by entry; otherwise up to the order of the entries.
IsMerge(y, x, p) ==
    /\ DOMAIN y = (DOMAIN x) \cup (DOMAIN p)
    /\ \A f \in DOMAIN p : y[f] = p[f]
    /\ \A f \in (DOMAIN x) \ (DOMAIN p) : y[f] = x[f]

Updated(y, x, p) == IF x.id = p.id THEN IsMerge(y, x, p) ELSE y = x

MergedInto(prev, next, p, ordered) ==
    /\ Len(next) = Len(prev)
    /\ IdsOf(next) = IdsOf(prev)
    /\ ~Has(prev, p.id) => next = prev
    /\ IF ordered
       THEN \A i \in 1..Len(prev) : Updated(next[i], prev[i], p)
       ELSE /\ \A i \in 1..Len(prev) : \E j \in 1..Len(next) : Updated(next[j], prev[i], p)
            /\ \A j \in 1..Len(next) : \E i \in 1..Len(prev) : Updated(next[j], prev[i], p)

\* C25: an update event (CarAdUpdated and BioItemUpdated on the profile page,
\* MyCarAdUpdated on the dashboard) merges the payload's fields into the entry
\* with the same id, keeping that entry's other fields and leaving every other
\* entry, the number of entries and the set of ids unchanged; with no entry of
\* that id, or with a userId other than the viewed profile's, the collection is
\* unchanged.
C25_UpdateMergesById ==
    /\ \A p \in AdUpdates(AdIds, UserIds) :
           IF p.userId # profileId THEN onAdUpdated(allAds, p) = allAds
           ELSE MergedInto(allAds, onAdUpdated(allAds, p), p, TRUE)
    /\ \A p \in BioUpdates(UserIds) : \A next \in onBioUpdated(bio, p) :
           IF p.userId # profileId THEN next = bio
           ELSE MergedInto(bio, next, p, FALSE)
    /\ \A p \in AdUpdates(MineIds, {profileId}) :
           MergedInto(ads, onMyCarAdUpdated(ads, p), p, TRUE)

\* CarAdUpdated has run on a profile whose list holds an ad the event can name
C25_Witness ==
    /\ last = "CarAdUpdated" /\ view = "profile"
    /\ \E i \in 1..Len(allAds) : allAds[i].userId = profileId

\* C28: a push event whose payload lacks its id is dropped, so no collection
\* ever holds an entry without an id.
C28_NoEntryWithoutId ==
    /\ ~Has(allAds, NoId)
    /\ ~Has(ads, NoId)
    /\ ~Has(telegramMsgs, NoId)
    /\ ~Has(bio, NoId)

\* C29: in UserManager, once the debounce has fired and every list request has
\* completed, the list on screen is the response to the text in the search box:
\* the response to an earlier query that arrives later has not replaced it.
C29_LatestQueryIsShown ==
    (debounce = "none" /\ pending = {}) => shownFor.qq = Trim(query)
====
